---- MODULE Spec2Model ----
(***************************************************************************)
(* Model of the web-search-plus routing engine: SearchService (routing,   *)
(* fallback loop, automatic escalation), CircuitBreakerRegistry,          *)
(* TtlLruCache and the helper functions of utils.ts.                      *)
(*                                                                         *)
(* Strings that the code inspects character by character (the query) are  *)
(* sequences of one-character strings.  Time is in milliseconds.  Debug   *)
(* events carry their step name and details; the wall-clock stamp `at`    *)
(* and the measured latency are left out.                                 *)
(***************************************************************************)
EXTENDS Integers, Sequences, FiniteSets, TLC

\* ------------------------------------------------------------------ bounds
MaxRequests == 2      \* top-level operations started in one behaviour
MaxTicks == 2         \* clock advances in one behaviour

\* --------------------------------------------------------- program constants
DayMs == 86400000
DefaultMaxResults == 5
MinResults == 1
MaxResultsCap == 20
MinCooldownMs == 1000
MinFailureThreshold == 1

Slots == {1, 2}

BasicProviderName == {"searxng", "brave"}
AiProviderName == {"tavily", "perplexity"}

\* ------------------------------------------------------------- characters
UpperSeq == <<"A","B","C","D","E","F","G","H","I","J","K","L","M",
              "N","O","P","Q","R","S","T","U","V","W","X","Y","Z">>
LowerSeq == <<"a","b","c","d","e","f","g","h","i","j","k","l","m",
              "n","o","p","q","r","s","t","u","v","w","x","y","z">>
DigitChars == {"0","1","2","3","4","5","6","7","8","9"}
UpperChars == {UpperSeq[i] : i \in 1..26}
LowerChars == {LowerSeq[i] : i \in 1..26}
AlphaChars == UpperChars \cup LowerChars
AlnumChars == AlphaChars \cup DigitChars
WordChars == AlnumChars \cup {"_"}
SpaceChars == {" "}

\* String.prototype.toLowerCase, one character
LowerChar(c) ==
  IF c \in UpperChars
    THEN LowerSeq[CHOOSE i \in 1..26 : UpperSeq[i] = c]
    ELSE c

toLowerCase(s) == [i \in 1..Len(s) |-> LowerChar(s[i])]

\* String.prototype.trim
trim(s) ==
  IF \A i \in 1..Len(s) : s[i] \in SpaceChars
    THEN <<>>
    ELSE LET a == CHOOSE i \in 1..Len(s) :
                    /\ s[i] \notin SpaceChars
                    /\ \A j \in 1..(i-1) : s[j] \in SpaceChars
             b == CHOOSE i \in 1..Len(s) :
                    /\ s[i] \notin SpaceChars
                    /\ \A j \in (i+1)..Len(s) : s[j] \in SpaceChars
         IN SubSeq(s, a, b)

\* String.prototype.includes
includes(s, sub) ==
  \E i \in 1..(Len(s) - Len(sub) + 1) : SubSeq(s, i, i + Len(sub) - 1) = sub

\* ----------------------------------------------------------- utils.ts
\* A number as the code sees it: finite or not (undefined, NaN, Infinity).
Num(n) == [finite |-> TRUE, v |-> n]
NotANumber == [finite |-> FALSE, v |-> 0]

Max(a, b) == IF a >= b THEN a ELSE b
Min(a, b) == IF a <= b THEN a ELSE b

\* mutant: the lower limit is not applied
clampMaxResultsNoFloor(value, fallback) ==
  LET v == IF value.finite THEN value.v ELSE fallback
  IN Min(MaxResultsCap, v)

clampMaxResults(value, fallback) ==
  LET v == IF value.finite THEN value.v ELSE fallback
  IN Max(MinResults, Min(MaxResultsCap, v))

\* \b of a regular expression: between s[p] and s[p+1], p in 0..Len(s)
IsWordAt(s, p) == p >= 1 /\ p <= Len(s) /\ s[p] \in WordChars
WordBoundary(s, p) == IsWordAt(s, p) # IsWordAt(s, p + 1)

AllIn(s, a, b, set) == \A i \in a..b : s[i] \in set

\* /\b(sk|rk)-[A-Za-z0-9]{16,}\b/
KeyPrefixes == {<<"s","k","-">>, <<"r","k","-">>}
MinKeyLen == 16
MatchesApiKey(s) ==
  \E a \in 1..Len(s) : \E b \in a..Len(s) :
    /\ WordBoundary(s, a - 1)
    /\ a + 2 <= b
    /\ SubSeq(s, a, a + 2) \in KeyPrefixes
    /\ b - (a + 2) >= MinKeyLen
    /\ AllIn(s, a + 3, b, AlnumChars)
    /\ WordBoundary(s, b)

\* /\b(?:password|passwd|secret|token|apikey|api_key)\b/i
SensitiveWords == {
  <<"p","a","s","s","w","o","r","d">>, <<"p","a","s","s","w","d">>,
  <<"s","e","c","r","e","t">>, <<"t","o","k","e","n">>,
  <<"a","p","i","k","e","y">>, <<"a","p","i","_","k","e","y">> }
MatchesSensitiveWord(s) ==
  \E a \in 1..Len(s) : \E b \in a..Len(s) :
    /\ WordBoundary(s, a - 1)
    /\ toLowerCase(SubSeq(s, a, b)) \in SensitiveWords
    /\ WordBoundary(s, b)

\* /\b[A-Z0-9._%+-]+@[A-Z0-9.-]+\.[A-Z]{2,}\b/i
EmailLocalChars == AlnumChars \cup {".", "_", "%", "+", "-"}
EmailDomainChars == AlnumChars \cup {".", "-"}
MinTldLen == 2
MatchesEmail(s) ==
  \E a \in 1..Len(s) : \E at \in a..Len(s) : \E dot \in at..Len(s) : \E b \in dot..Len(s) :
    /\ WordBoundary(s, a - 1)
    /\ a < at /\ AllIn(s, a, at - 1, EmailLocalChars)
    /\ s[at] = "@"
    /\ at + 1 < dot /\ AllIn(s, at + 1, dot - 1, EmailDomainChars)
    /\ s[dot] = "."
    /\ b - dot >= MinTldLen /\ AllIn(s, dot + 1, b, AlphaChars)
    /\ WordBoundary(s, b)

\* /\b\d{2,4}[-.\s]?\d{3,4}[-.\s]?\d{4}\b/
PhoneSeparators == {"-", "."} \cup SpaceChars
PhoneGroup1 == {2, 3, 4}
PhoneGroup2 == {3, 4}
PhoneGroup3 == {4}
PhoneSepLens == {0, 1}
MatchesPhone(s) ==
  \E a \in 1..Len(s) : \E g1 \in PhoneGroup1 : \E s1 \in PhoneSepLens :
  \E g2 \in PhoneGroup2 : \E s2 \in PhoneSepLens : \E g3 \in PhoneGroup3 :
    LET e1 == a + g1 - 1
        b2 == e1 + s1 + 1
        e2 == b2 + g2 - 1
        b3 == e2 + s2 + 1
        e3 == b3 + g3 - 1
    IN /\ e3 <= Len(s)
       /\ WordBoundary(s, a - 1)
       /\ AllIn(s, a, e1, DigitChars)
       /\ AllIn(s, e1 + 1, b2 - 1, PhoneSeparators)
       /\ AllIn(s, b2, e2, DigitChars)
       /\ AllIn(s, e2 + 1, b3 - 1, PhoneSeparators)
       /\ AllIn(s, b3, e3, DigitChars)
       /\ WordBoundary(s, e3)

isSensitiveQuery(query) ==
  \/ MatchesApiKey(query)
  \/ MatchesSensitiveWord(query)
  \/ MatchesEmail(query)
  \/ MatchesPhone(query)

\* the query texts of the model, and which of them the heuristic matches
QPlain == <<"c","a","t","s">>
QKeyword == <<" ","L","A","T","E","S","T"," ","c","a","t","s">>
QSecret == <<"m","y"," ","T","o","k","e","n">>
QPhoneKeyword == <<"l","a","t","e","s","t"," ","0","2","-","5","5","5","-","1","2","3","4">>
Queries == {QPlain, QKeyword, QSecret, QPhoneKeyword}

SensitiveQueries == {q \in Queries : isSensitiveQuery(q)}

\* mutant: the query is compared as typed
shouldUpgradeToAiCaseSensitive(query, keywords) ==
  \E kw \in keywords : includes(query, toLowerCase(kw))

shouldUpgradeToAi(query, keywords) ==
  LET normalized == toLowerCase(query)
  IN \E kw \in keywords : includes(normalized, toLowerCase(kw))

\* A URL string: whether `new URL(raw)` parses it, whether it already is in
\* the serialised form that URL.toString() produces, its part before the
\* query, and the names of its query parameters in order.
DropKeys == {"utm_source", "utm_medium", "utm_campaign", "utm_term", "utm_content", "ref"}

\* mutant: only the first tracking parameter met is removed
RECURSIVE DeleteParamsFirstOnly(_, _)
DeleteParamsFirstOnly(params, keys) ==
  IF params = <<>> THEN <<>>
  ELSE IF Head(params) \in keys
    THEN Tail(params)
    ELSE <<Head(params)>> \o DeleteParamsFirstOnly(Tail(params), keys)

RECURSIVE DeleteParams(_, _)
DeleteParams(params, keys) ==
  IF params = <<>> THEN <<>>
  ELSE IF Head(params) \in keys
    THEN DeleteParams(Tail(params), keys)
    ELSE <<Head(params)>> \o DeleteParams(Tail(params), keys)

normalizeUrl(raw) ==
  IF raw.parseable
    THEN [parseable |-> TRUE, serialised |-> TRUE, base |-> raw.base,
          params |-> DeleteParams(raw.params, DropKeys)]
    ELSE raw

\* mutant: the URLs are compared as received
RECURSIVE DedupeFromRaw(_, _, _)
DedupeFromRaw(results, seen, output) ==
  IF results = <<>> THEN output
  ELSE LET item == Head(results)
           normalized == normalizeUrl(item.url)
       IN IF item.url \in seen
            THEN DedupeFromRaw(Tail(results), seen, output)
            ELSE DedupeFromRaw(Tail(results), seen \cup {item.url},
                               Append(output, [item EXCEPT !.url = normalized]))

RECURSIVE DedupeFrom(_, _, _)
DedupeFrom(results, seen, output) ==
  IF results = <<>> THEN output
  ELSE LET item == Head(results)
           normalized == normalizeUrl(item.url)
       IN IF normalized \in seen
            THEN DedupeFrom(Tail(results), seen, output)
            ELSE DedupeFrom(Tail(results), seen \cup {normalized},
                            Append(output, [item EXCEPT !.url = normalized]))

dedupeResults(results) == DedupeFrom(results, {}, <<>>)

newDayKey(t) == t \div DayMs

\* ------------------------------------------------------------- cache.ts
\* The store is a JavaScript Map: entries in insertion order.
HasKey(store, key) == \E i \in 1..Len(store) : store[i].key = key

EntryOf(store, key) == store[CHOOSE i \in 1..Len(store) : store[i].key = key]

DeleteKey(store, key) == SelectSeq(store, LAMBDA e : e.key # key)

\* mutant: an entry is still served at its expiry instant
CacheGetLenient(store, key, t) ==
  IF ~HasKey(store, key)
    THEN [store |-> store, value |-> <<>>]
  ELSE LET entry == EntryOf(store, key)
       IN IF entry.expiresAt < t
            THEN [store |-> DeleteKey(store, key), value |-> <<>>]
            ELSE [store |-> Append(DeleteKey(store, key), entry),
                  value |-> <<entry.value>>]

\* TtlLruCache.get: the value as a sequence of length 0 (undefined) or 1
CacheGet(store, key, t) ==
  IF ~HasKey(store, key)
    THEN [store |-> store, value |-> <<>>]
  ELSE LET entry == EntryOf(store, key)
       IN IF entry.expiresAt <= t
            THEN [store |-> DeleteKey(store, key), value |-> <<>>]
            ELSE [store |-> Append(DeleteKey(store, key), entry),
                  value |-> <<entry.value>>]

\* the eviction loop of TtlLruCache.set; an empty-string key is falsy
RECURSIVE Evict(_, _)
Evict(store, maxEntries) ==
  IF Len(store) > maxEntries
    THEN IF store[1].key = <<>>
           THEN store
           ELSE Evict(DeleteKey(store, store[1].key), maxEntries)
    ELSE store

MsPerSecond == 1000
TickMs == MsPerSecond
MinTtlSeconds == 1

\* mutant: a key that is already stored keeps its entry
CacheSetKeepsOld(store, key, value, ttlSeconds, t, maxEntries) ==
  LET expiresAt == t + Max(MinTtlSeconds, ttlSeconds) * MsPerSecond
  IN IF HasKey(store, key) THEN store
     ELSE Evict(Append(store, [key |-> key, value |-> value, expiresAt |-> expiresAt]),
                maxEntries)

CacheSet(store, key, value, ttlSeconds, t, maxEntries) ==
  LET expiresAt == t + Max(MinTtlSeconds, ttlSeconds) * MsPerSecond
      removed == IF HasKey(store, key) THEN DeleteKey(store, key) ELSE store
  IN Evict(Append(removed, [key |-> key, value |-> value, expiresAt |-> expiresAt]),
           maxEntries)

\* --------------------------------------------------- circuit-breaker.ts
\* `states` is a function from the providers observed so far.
ClosedState == [failures |-> 0, openedUntil |-> 0]

\* mutant: the instant the cooldown ends still counts as open
isAvailableStrict(states, provider, t) ==
  IF provider \notin DOMAIN states THEN TRUE
  ELSE t > states[provider].openedUntil

isAvailable(states, provider, t) ==
  IF provider \notin DOMAIN states THEN TRUE
  ELSE t >= states[provider].openedUntil

MapSet(m, k, v) == [x \in DOMAIN m \cup {k} |-> IF x = k THEN v ELSE m[x]]

\* mutant: a success resets the count but leaves an open breaker open
recordSuccessKeepsOpen(states, provider) ==
  MapSet(states, provider,
         [failures |-> 0,
          openedUntil |-> IF provider \in DOMAIN states
                            THEN states[provider].openedUntil ELSE 0])

recordSuccess(states, provider) == MapSet(states, provider, ClosedState)

\* mutant: the count starts again from zero when the breaker opens
recordFailureResetsOnOpen(states, provider, t, failureThreshold, cooldownMs) ==
  LET prev == IF provider \in DOMAIN states THEN states[provider] ELSE ClosedState
      failures == prev.failures + 1
      opens == failures >= failureThreshold
  IN MapSet(states, provider,
            [failures |-> IF opens THEN 0 ELSE failures,
             openedUntil |-> IF opens THEN t + cooldownMs ELSE 0])

\* mutant: every failure opens the breaker
recordFailureAlwaysOpens(states, provider, t, failureThreshold, cooldownMs) ==
  LET prev == IF provider \in DOMAIN states THEN states[provider] ELSE ClosedState
  IN MapSet(states, provider,
            [failures |-> prev.failures + 1, openedUntil |-> t + cooldownMs])

recordFailure(states, provider, t, failureThreshold, cooldownMs) ==
  LET prev == IF provider \in DOMAIN states THEN states[provider] ELSE ClosedState
      failures == prev.failures + 1
      openedUntil == IF failures >= failureThreshold THEN t + cooldownMs ELSE 0
  IN MapSet(states, provider, [failures |-> failures, openedUntil |-> openedUntil])

\* ------------------------------------------------------ search-service.ts
VARIABLES
  cfg,          \* the resolved Config the service was constructed with
  now,          \* Date.now()
  store,        \* TtlLruCache.store
  states,       \* CircuitBreakerRegistry.states
  dayCounter,   \* SearchService.dayCounter
  slots,        \* the slots in which the host runs operations
  calls,        \* the tool calls the host chooses from
  task,         \* per slot: the top-level operation running in it
  started,      \* number of top-level operations started so far
  hist,         \* per provider: the success/failure calls seen by the breaker
  probe         \* the latest direct use of the cache and what its caller knows

vars == <<cfg, slots, calls, now, store, states, dayCounter, task, started, hist, probe>>

\* the fields the constructors derive from the configuration
failureThreshold == Max(MinFailureThreshold, cfg.circuitBreaker.failureThreshold)
cooldownMs == Max(MinCooldownMs, cfg.circuitBreaker.cooldownMs)
MinEntries == 1
maxEntries == Max(MinEntries, cfg.cache.maxEntries)

Boolean(str) == str # ""

Event(step, details) == [step |-> step, details |-> details]
NoDetails == [none |-> TRUE]

Err(kind, tier, message) == [kind |-> kind, tier |-> tier, message |-> message]

\* characters of the identifiers and numbers that enter a cache key
NameChars(name) ==
  CASE name = "basic" -> <<"b","a","s","i","c">>
    [] name = "ai" -> <<"a","i">>
    [] name = "searxng" -> <<"s","e","a","r","x","n","g">>
    [] name = "brave" -> <<"b","r","a","v","e">>
    [] name = "tavily" -> <<"t","a","v","i","l","y">>
    [] name = "perplexity" -> <<"p","e","r","p","l","e","x","i","t","y">>

DigitSeq == <<"0","1","2","3","4","5","6","7","8","9">>
Radix == 10
RECURSIVE NumberChars(_)
NumberChars(n) ==
  IF n < Radix THEN <<DigitSeq[n + 1]>>
  ELSE NumberChars(n \div Radix) \o <<DigitSeq[(n % Radix) + 1]>>

RECURSIVE Join(_, _)
Join(parts, sep) ==
  IF parts = <<>> THEN <<>>
  ELSE IF Len(parts) = 1 THEN parts[1]
  ELSE parts[1] \o <<sep>> \o Join(Tail(parts), sep)

\* mutant: the query goes into the key as typed
buildCacheKeyRawQuery(tier, provider, rq) ==
  Join(<< NameChars(tier),
          NameChars(provider),
          rq.query,
          rq.language,
          rq.country,
          rq.freshness,
          rq.category,
          NumberChars(clampMaxResults(rq.maxResults, DefaultMaxResults)) >>, "|")

buildCacheKey(tier, provider, rq) ==
  Join(<< NameChars(tier),
          NameChars(provider),
          toLowerCase(trim(rq.query)),
          rq.language,
          rq.country,
          rq.freshness,
          rq.category,
          NumberChars(clampMaxResults(rq.maxResults, DefaultMaxResults)) >>, "|")

cacheRead(st, key, trace, t) ==
  IF ~cfg.cache.enabled
    THEN [store |-> st, value |-> <<>>, trace |-> trace]
    ELSE LET got == CacheGet(st, key, t)
         IN [store |-> got.store, value |-> got.value,
             trace |-> IF got.value # <<>>
                         THEN Append(trace, Event("cache_hit", [key |-> key]))
                         ELSE trace]

cacheWrite(st, key, value, ttlSeconds, trace, t) ==
  IF ~cfg.cache.enabled
    THEN [store |-> st, trace |-> trace]
    ELSE [store |-> CacheSet(st, key, value, ttlSeconds, t, maxEntries),
          trace |-> Append(trace, Event("cache_set", [key |-> key, ttlSeconds |-> ttlSeconds]))]

serializeOutput(data) == <<"json", data>>

asToolPayload(data) ==
  [content |-> <<[type |-> "text", text |-> serializeOutput(data)]>>,
   structuredContent |-> data]

\* mutant: a new day changes the stored day key but keeps the counts
resetDailyCounterKeepsCounts(dc, t) ==
  [dc EXCEPT !.day = newDayKey(t)]

resetDailyCounterIfNeeded(dc, t) ==
  IF dc.day = newDayKey(t) THEN dc
  ELSE [day |-> newDayKey(t), braveCalls |-> 0, aiCalls |-> 0]

FreeBasicOrder == <<"searxng", "brave">>
QualityBasicOrder == <<"brave", "searxng">>
FreeAiOrder == <<"tavily", "perplexity">>
QualityAiOrder == <<"perplexity", "tavily">>

\* the candidate list, or the error the method throws
\* mutant: the configured priority list is used whatever the preset
pickBasicProviderIgnoresPreset(rq) ==
  LET availability == [p \in BasicProviderName |->
                         IF p = "searxng" THEN Boolean(cfg.basic.searxng.baseUrl)
                                          ELSE Boolean(cfg.basic.brave.apiKey)]
      order == cfg.basic.priority
  IN IF rq.provider \in BasicProviderName
       THEN IF ~availability[rq.provider]
              THEN [error |-> <<Err("provider_not_configured", "basic", rq.provider)>>,
                    providers |-> <<>>]
              ELSE [error |-> <<>>, providers |-> <<rq.provider>>]
       ELSE [error |-> <<>>, providers |-> SelectSeq(order, LAMBDA p : availability[p])]

pickBasicProvider(rq) ==
  LET availability == [p \in BasicProviderName |->
                         IF p = "searxng" THEN Boolean(cfg.basic.searxng.baseUrl)
                                          ELSE Boolean(cfg.basic.brave.apiKey)]
      preset == cfg.router.providerPreset
      order == IF preset = "free" THEN FreeBasicOrder
               ELSE IF preset = "quality" THEN QualityBasicOrder
               ELSE cfg.basic.priority
  IN IF rq.provider \in BasicProviderName
       THEN IF ~availability[rq.provider]
              THEN [error |-> <<Err("provider_not_configured", "basic", rq.provider)>>,
                    providers |-> <<>>]
              ELSE [error |-> <<>>, providers |-> <<rq.provider>>]
       ELSE [error |-> <<>>, providers |-> SelectSeq(order, LAMBDA p : availability[p])]

\* mutant: a requested provider that is not configured is ignored
pickAiProviderFallsThrough(rq) ==
  LET availability == [p \in AiProviderName |->
                         IF p = "tavily" THEN Boolean(cfg.ai.tavily.apiKey)
                                         ELSE Boolean(cfg.ai.perplexity.apiKey)]
      preset == cfg.router.providerPreset
      order == IF preset = "free" THEN FreeAiOrder
               ELSE IF preset = "quality" THEN QualityAiOrder
               ELSE cfg.ai.priority
  IN IF rq.provider \in AiProviderName /\ availability[rq.provider]
       THEN [error |-> <<>>, providers |-> <<rq.provider>>]
       ELSE [error |-> <<>>, providers |-> SelectSeq(order, LAMBDA p : availability[p])]

pickAiProvider(rq) ==
  LET availability == [p \in AiProviderName |->
                         IF p = "tavily" THEN Boolean(cfg.ai.tavily.apiKey)
                                         ELSE Boolean(cfg.ai.perplexity.apiKey)]
      preset == cfg.router.providerPreset
      order == IF preset = "free" THEN FreeAiOrder
               ELSE IF preset = "quality" THEN QualityAiOrder
               ELSE cfg.ai.priority
  IN IF rq.provider \in AiProviderName
       THEN IF ~availability[rq.provider]
              THEN [error |-> <<Err("provider_not_configured", "ai", rq.provider)>>,
                    providers |-> <<>>]
              ELSE [error |-> <<>>, providers |-> <<rq.provider>>]
       ELSE [error |-> <<>>, providers |-> SelectSeq(order, LAMBDA p : availability[p])]

\* ---- one top-level operation (a slot of `task`) ----
\* pc: "idle", "basic_call" / "ai_call" (awaiting the adapter of
\* providers[idx]), "basic_returned" (runBasic has resolved, webSearchPlus
\* has not yet resumed), "done".
\* log: what the operation did, in order (a tier run entered, its candidate
\* list, a candidate skipped, a cache hit, an adapter call started, resolved
\* or rejected, the run returning or throwing); only the properties read it.
Pending == [status |-> "pending", value |-> <<>>]
Returned(payload) == [status |-> "returned", value |-> <<payload>>]
Failed(error) == [status |-> "failed", value |-> <<error>>]

IdleTask ==
  [pc |-> "idle", tool |-> "", auto |-> FALSE, req |-> <<>>, trace |-> <<>>,
   tier |-> "", providers |-> <<>>, idx |-> 0, cacheKey |-> <<>>,
   lastError |-> <<>>, basicEnvelope |-> <<>>, result |-> Pending, log |-> <<>>]

LogEntry(ev, tier, provider, args) ==
  [ev |-> ev, tier |-> tier, provider |-> provider, args |-> args]

Logged(t, ev, provider, args) ==
  [t EXCEPT !.log = Append(@, LogEntry(ev, t.tier, provider, args))]

Pushed(t, step, details) ==
  [t EXCEPT !.trace = Append(@, Event(step, details))]

StripTrace(envelope, debug) ==
  IF debug THEN envelope ELSE [envelope EXCEPT !.debugTrace = <<>>]

\* mutant: the envelope goes out with its trace whatever the debug flag
TierReturnedKeepsTrace(t, envelope, sv) ==
  LET t1 == Logged(t, "return", envelope.provider, [envelope |-> envelope])
  IN IF t.auto /\ t.tier = "basic"
       THEN [t |-> [t1 EXCEPT !.pc = "basic_returned", !.basicEnvelope = <<envelope>>],
             sv |-> sv]
       ELSE [t |-> [t1 EXCEPT !.pc = "done", !.result = Returned(asToolPayload(envelope))],
             sv |-> sv]

\* a tier run returned `envelope` to its caller
TierReturned(t, envelope, sv) ==
  LET t1 == Logged(t, "return", envelope.provider, [envelope |-> envelope])
  IN IF t.auto /\ t.tier = "basic"
       THEN [t |-> [t1 EXCEPT !.pc = "basic_returned", !.basicEnvelope = <<envelope>>],
             sv |-> sv]
       ELSE [t |-> [t1 EXCEPT !.pc = "done",
                       !.result = Returned(asToolPayload(StripTrace(envelope, t.req.debug)))],
             sv |-> sv]

\* mutant: the caller of runAi has no catch block
TierThrewPropagates(t, error, sv) ==
  [t |-> [Logged(t, "throw", "", [error |-> error])
            EXCEPT !.pc = "done", !.result = Failed(error)],
   sv |-> sv]

\* a tier run threw `error`: the catch block of webSearchPlus for the ai
\* tier of the automatic path, otherwise the rejection of the operation
TierThrew(t, error, sv) ==
  LET t1 == Logged(t, "throw", "", [error |-> error])
  IN IF t.auto /\ t.tier = "ai"
       THEN LET t2 == Pushed(t1, "ai_upgrade_failed_fallback_to_basic", [message |-> error])
                fallback == [t.basicEnvelope[1] EXCEPT !.debugTrace = t2.trace]
            IN [t |-> [t2 EXCEPT !.pc = "done",
                          !.result = Returned(asToolPayload(StripTrace(fallback, t.req.debug)))],
                sv |-> sv]
       ELSE [t |-> [t1 EXCEPT !.pc = "done", !.result = Failed(error)], sv |-> sv]

UnknownError == "unknown error"

AdapterArgs(t, provider) ==
  LET maxResults == clampMaxResults(t.req.maxResults, DefaultMaxResults)
  IN CASE provider = "searxng" ->
            [query |-> t.req.query, maxResults |-> <<maxResults>>,
             timeoutMs |-> cfg.basic.searxng.timeoutMs]
       [] provider = "brave" ->
            [query |-> t.req.query, maxResults |-> <<maxResults>>,
             timeoutMs |-> cfg.basic.brave.timeoutMs]
       [] provider = "tavily" ->
            [query |-> t.req.query, maxResults |-> <<maxResults>>,
             timeoutMs |-> cfg.ai.tavily.timeoutMs]
       [] provider = "perplexity" ->
            [query |-> t.req.query, maxResults |-> <<>>,
             timeoutMs |-> cfg.ai.perplexity.timeoutMs]

\* mutant: the daily cap of brave is not consulted
RECURSIVE RunLoopNoBudgetSkip(_, _, _, _)
RunLoopNoBudgetSkip(t, i, sv, clock) ==
  IF i > Len(t.providers)
    THEN TierThrew([t EXCEPT !.idx = i],
                   Err("all_providers_failed", t.tier,
                       IF t.lastError = <<>> THEN UnknownError ELSE t.lastError[1]),
                   sv)
  ELSE LET provider == t.providers[i]
       IN IF ~isAvailable(sv.states, provider, clock)
            THEN RunLoopNoBudgetSkip(
                   Logged(Pushed(t, "provider_skipped_circuit_open", [provider |-> provider]),
                          "skip_open", provider, NoDetails),
                   i + 1, sv, clock)
          ELSE LET cacheKey == buildCacheKey(t.tier, provider, t.req)
                   cached == cacheRead(sv.store, cacheKey, t.trace, clock)
                   sv1 == [sv EXCEPT !.store = cached.store]
                   t1 == [t EXCEPT !.idx = i, !.cacheKey = cacheKey, !.trace = cached.trace]
               IN IF cached.value # <<>>
                    THEN TierReturned(Logged(t1, "cache_hit", provider, NoDetails),
                                      cached.value[1], sv1)
                    ELSE [t |-> [Logged(t1, "start", provider, AdapterArgs(t1, provider))
                                   EXCEPT !.pc = IF t.tier = "basic" THEN "basic_call"
                                                                     ELSE "ai_call"],
                          sv |-> sv1]

\* the for-loop of runBasic / runAi from candidate i up to the next await,
\* return or throw
\* mutant: the cache is read before the breaker and the budget are looked at
RECURSIVE RunLoopCacheFirst(_, _, _, _)
RunLoopCacheFirst(t, i, sv, clock) ==
  IF i > Len(t.providers)
    THEN TierThrew([t EXCEPT !.idx = i],
                   Err("all_providers_failed", t.tier,
                       IF t.lastError = <<>> THEN UnknownError ELSE t.lastError[1]),
                   sv)
  ELSE LET provider == t.providers[i]
           cacheKey == buildCacheKey(t.tier, provider, t.req)
           cached == cacheRead(sv.store, cacheKey, t.trace, clock)
           sv1 == [sv EXCEPT !.store = cached.store]
           t1 == [t EXCEPT !.idx = i, !.cacheKey = cacheKey, !.trace = cached.trace]
       IN IF cached.value # <<>>
            THEN TierReturned(Logged(t1, "cache_hit", provider, NoDetails),
                              cached.value[1], sv1)
          ELSE IF ~isAvailable(sv.states, provider, clock)
            THEN RunLoopCacheFirst(
                   Logged(Pushed(t, "provider_skipped_circuit_open", [provider |-> provider]),
                          "skip_open", provider, NoDetails),
                   i + 1, sv1, clock)
          ELSE IF /\ t.tier = "basic"
                  /\ provider = "brave"
                  /\ sv.dayCounter.braveCalls >= cfg.router.maxBraveCallsPerDay
            THEN RunLoopCacheFirst(
                   Logged(Pushed(t, "provider_skipped_budget", [provider |-> provider]),
                          "skip_budget", provider, NoDetails),
                   i + 1, sv1, clock)
          ELSE [t |-> [Logged(t1, "start", provider, AdapterArgs(t1, provider))
                         EXCEPT !.pc = IF t.tier = "basic" THEN "basic_call"
                                                           ELSE "ai_call"],
                sv |-> sv1]

\* mutant: an answer from the cache is counted like an adapter call
RECURSIVE RunLoopHitCounts(_, _, _, _)
RunLoopHitCounts(t, i, sv, clock) ==
  IF i > Len(t.providers)
    THEN TierThrew([t EXCEPT !.idx = i],
                   Err("all_providers_failed", t.tier,
                       IF t.lastError = <<>> THEN UnknownError ELSE t.lastError[1]),
                   sv)
  ELSE LET provider == t.providers[i]
       IN IF ~isAvailable(sv.states, provider, clock)
            THEN RunLoopHitCounts(Logged(Pushed(t, "provider_skipped_circuit_open", [provider |-> provider]),
                                "skip_open", provider, NoDetails),
                         i + 1, sv, clock)
          ELSE IF /\ t.tier = "basic"
                  /\ provider = "brave"
                  /\ sv.dayCounter.braveCalls >= cfg.router.maxBraveCallsPerDay
            THEN RunLoopHitCounts(Logged(Pushed(t, "provider_skipped_budget", [provider |-> provider]),
                                "skip_budget", provider, NoDetails),
                         i + 1, sv, clock)
          ELSE LET cacheKey == buildCacheKey(t.tier, provider, t.req)
                   cached == cacheRead(sv.store, cacheKey, t.trace, clock)
                   sv1 == [sv EXCEPT !.store = cached.store,
                                     !.dayCounter =
                                        IF cached.value = <<>> THEN @
                                        ELSE IF t.tier = "ai" THEN [@ EXCEPT !.aiCalls = @ + 1]
                                        ELSE IF provider = "brave" THEN [@ EXCEPT !.braveCalls = @ + 1]
                                        ELSE @]
                   t1 == [t EXCEPT !.idx = i, !.cacheKey = cacheKey, !.trace = cached.trace]
               IN IF cached.value # <<>>
                    THEN TierReturned(Logged(t1, "cache_hit", provider, NoDetails),
                                      cached.value[1], sv1)
                    ELSE [t |-> [Logged(t1, "start", provider, AdapterArgs(t1, provider))
                                   EXCEPT !.pc = IF t.tier = "basic" THEN "basic_call"
                                                                     ELSE "ai_call"],
                          sv |-> sv1]

\* mutant: a candidate skipped for its open breaker is counted as one more failure
RECURSIVE RunLoopSkipCounts(_, _, _, _)
RunLoopSkipCounts(t, i, sv, clock) ==
  IF i > Len(t.providers)
    THEN TierThrew([t EXCEPT !.idx = i],
                   Err("all_providers_failed", t.tier,
                       IF t.lastError = <<>> THEN UnknownError ELSE t.lastError[1]),
                   sv)
  ELSE LET provider == t.providers[i]
       IN IF ~isAvailable(sv.states, provider, clock)
            THEN RunLoopSkipCounts(Logged(Pushed(t, "provider_skipped_circuit_open", [provider |-> provider]),
                                "skip_open", provider, NoDetails),
                         i + 1,
                         [sv EXCEPT !.states = recordFailure(@, provider, clock,
                                                             failureThreshold, cooldownMs)],
                         clock)
          ELSE IF /\ t.tier = "basic"
                  /\ provider = "brave"
                  /\ sv.dayCounter.braveCalls >= cfg.router.maxBraveCallsPerDay
            THEN RunLoopSkipCounts(Logged(Pushed(t, "provider_skipped_budget", [provider |-> provider]),
                                "skip_budget", provider, NoDetails),
                         i + 1, sv, clock)
          ELSE LET cacheKey == buildCacheKey(t.tier, provider, t.req)
                   cached == cacheRead(sv.store, cacheKey, t.trace, clock)
                   sv1 == [sv EXCEPT !.store = cached.store]
                   t1 == [t EXCEPT !.idx = i, !.cacheKey = cacheKey, !.trace = cached.trace]
               IN IF cached.value # <<>>
                    THEN TierReturned(Logged(t1, "cache_hit", provider, NoDetails),
                                      cached.value[1], sv1)
                    ELSE [t |-> [Logged(t1, "start", provider, AdapterArgs(t1, provider))
                                   EXCEPT !.pc = IF t.tier = "basic" THEN "basic_call"
                                                                     ELSE "ai_call"],
                          sv |-> sv1]

RECURSIVE RunLoop(_, _, _, _)
RunLoop(t, i, sv, clock) ==
  IF i > Len(t.providers)
    THEN TierThrew([t EXCEPT !.idx = i],
                   Err("all_providers_failed", t.tier,
                       IF t.lastError = <<>> THEN UnknownError ELSE t.lastError[1]),
                   sv)
  ELSE LET provider == t.providers[i]
       IN IF ~isAvailable(sv.states, provider, clock)
            THEN RunLoop(Logged(Pushed(t, "provider_skipped_circuit_open", [provider |-> provider]),
                                "skip_open", provider, NoDetails),
                         i + 1, sv, clock)
          ELSE IF /\ t.tier = "basic"
                  /\ provider = "brave"
                  /\ sv.dayCounter.braveCalls >= cfg.router.maxBraveCallsPerDay
            THEN RunLoop(Logged(Pushed(t, "provider_skipped_budget", [provider |-> provider]),
                                "skip_budget", provider, NoDetails),
                         i + 1, sv, clock)
          ELSE LET cacheKey == buildCacheKey(t.tier, provider, t.req)
                   cached == cacheRead(sv.store, cacheKey, t.trace, clock)
                   sv1 == [sv EXCEPT !.store = cached.store]
                   t1 == [t EXCEPT !.idx = i, !.cacheKey = cacheKey, !.trace = cached.trace]
               IN IF cached.value # <<>>
                    THEN TierReturned(Logged(t1, "cache_hit", provider, NoDetails),
                                      cached.value[1], sv1)
                    ELSE [t |-> [Logged(t1, "start", provider, AdapterArgs(t1, provider))
                                   EXCEPT !.pc = IF t.tier = "basic" THEN "basic_call"
                                                                     ELSE "ai_call"],
                          sv |-> sv1]

runBasic(t, sv, clock) ==
  LET sv1 == [sv EXCEPT !.dayCounter = resetDailyCounterIfNeeded(@, clock)]
      t1 == Logged([t EXCEPT !.tier = "basic", !.lastError = <<>>], "enter", "", NoDetails)
      picked == pickBasicProvider(t.req)
  IN IF picked.error # <<>>
       THEN TierThrew(t1, picked.error[1], sv1)
     ELSE IF Len(picked.providers) = 0
       THEN TierThrew(t1, Err("no_provider_configured", "basic", ""), sv1)
     ELSE RunLoop(Logged([t1 EXCEPT !.providers = picked.providers], "candidates", "",
                         [providers |-> picked.providers]),
                  1, sv1, clock)

\* mutant: the providers are selected before the daily cap is looked at
runAiPicksFirst(t, sv, clock) ==
  LET sv1 == [sv EXCEPT !.dayCounter = resetDailyCounterIfNeeded(@, clock)]
      t1 == Logged([t EXCEPT !.tier = "ai", !.lastError = <<>>], "enter", "", NoDetails)
      picked == pickAiProvider(t.req)
  IN IF picked.error # <<>>
       THEN TierThrew(t1, picked.error[1], sv1)
     ELSE IF Len(picked.providers) = 0
       THEN TierThrew(t1, Err("no_provider_configured", "ai", ""), sv1)
     ELSE IF sv1.dayCounter.aiCalls >= cfg.router.maxAiCallsPerDay
       THEN TierThrew(t1, Err("daily_ai_budget_reached", "ai", ""), sv1)
     ELSE RunLoop(Logged([t1 EXCEPT !.providers = picked.providers], "candidates", "",
                         [providers |-> picked.providers]),
                  1, sv1, clock)

runAi(t, sv, clock) ==
  LET sv1 == [sv EXCEPT !.dayCounter = resetDailyCounterIfNeeded(@, clock)]
      t1 == Logged([t EXCEPT !.tier = "ai", !.lastError = <<>>], "enter", "", NoDetails)
      picked == pickAiProvider(t.req)
  IN IF sv1.dayCounter.aiCalls >= cfg.router.maxAiCallsPerDay
       THEN TierThrew(t1, Err("daily_ai_budget_reached", "ai", ""), sv1)
     ELSE IF picked.error # <<>>
       THEN TierThrew(t1, picked.error[1], sv1)
     ELSE IF Len(picked.providers) = 0
       THEN TierThrew(t1, Err("no_provider_configured", "ai", ""), sv1)
     ELSE RunLoop(Logged([t1 EXCEPT !.providers = picked.providers], "candidates", "",
                         [providers |-> picked.providers]),
                  1, sv1, clock)

webSearchBasic(t, sv, clock) ==
  runBasic([t EXCEPT !.auto = FALSE, !.trace = <<Event("start_basic", NoDetails)>>], sv, clock)

\* mutant: the ai-only entry point does not consult the privacy guard
webSearchAiNoGuard(t, sv, clock) ==
  runAi([t EXCEPT !.auto = FALSE, !.trace = <<Event("start_ai", NoDetails)>>], sv, clock)

webSearchAi(t, sv, clock) ==
  LET t1 == [t EXCEPT !.auto = FALSE, !.trace = <<Event("start_ai", NoDetails)>>]
  IN IF cfg.router.enablePrivacyGuard /\ t.req.query \in SensitiveQueries
       THEN [t |-> [t1 EXCEPT !.pc = "done",
                       !.result = Failed(Err("privacy_guard_blocked", "ai", ""))],
             sv |-> sv]
       ELSE runAi(t1, sv, clock)

\* mutant: the requested mode is ignored
webSearchPlusIgnoresMode(t, sv, clock) ==
  runBasic([t EXCEPT !.auto = TRUE, !.trace = <<Event("start_auto", NoDetails)>>], sv, clock)

\* mutant: a failed basic run counts as an empty result and the ai tier is tried
webSearchPlusSwallowsBasic(t, sv, clock) ==
  LET mode == IF t.req.mode # "" THEN t.req.mode ELSE cfg.router.defaultMode
      out == runBasic([t EXCEPT !.auto = TRUE, !.trace = <<Event("start_auto", NoDetails)>>],
                      sv, clock)
      empty == [mode |-> "basic", provider |-> "", query |-> t.req.query,
                data |-> <<>>, debugTrace |-> out.t.trace]
  IN IF mode = "basic" THEN webSearchBasic(t, sv, clock)
     ELSE IF mode = "ai" THEN webSearchAi(t, sv, clock)
     ELSE IF out.t.result.status = "failed"
       THEN runAi([out.t EXCEPT !.result = Pending, !.basicEnvelope = <<empty>>],
                  out.sv, clock)
     ELSE out

webSearchPlus(t, sv, clock) ==
  LET mode == IF t.req.mode # "" THEN t.req.mode ELSE cfg.router.defaultMode
  IN IF mode = "basic" THEN webSearchBasic(t, sv, clock)
     ELSE IF mode = "ai" THEN webSearchAi(t, sv, clock)
     ELSE runBasic([t EXCEPT !.auto = TRUE, !.trace = <<Event("start_auto", NoDetails)>>],
                   sv, clock)

\* mutant: the envelope's trace starts afresh at the success event
basicSuccessDropsTrace(t, results, sv, clock) ==
  LET provider == t.providers[t.idx]
      dc == IF provider = "brave"
              THEN [sv.dayCounter EXCEPT !.braveCalls = @ + 1]
              ELSE sv.dayCounter
      st == recordSuccess(sv.states, provider)
      envelope == [mode |-> "basic", provider |-> provider, query |-> t.req.query,
                   data |-> dedupeResults(results),
                   debugTrace |-> <<Event("provider_success", [provider |-> provider])>>]
      ttl == IF provider = "brave" THEN cfg.cache.ttlSecondsBrave
                                   ELSE cfg.cache.ttlSecondsBasic
      written == cacheWrite(sv.store, t.cacheKey, envelope, ttl, t.trace, clock)
  IN TierReturned(Logged([t EXCEPT !.trace = written.trace], "ok", provider, NoDetails),
                  envelope,
                  [store |-> written.store, states |-> st, dayCounter |-> dc])

\* the code after `await searchSearxng/searchBrave` resolved with `results`
\* mutant: every basic envelope is cached for ttlSecondsBasic
basicSuccessOneTtl(t, results, sv, clock) ==
  LET provider == t.providers[t.idx]
      dc == IF provider = "brave"
              THEN [sv.dayCounter EXCEPT !.braveCalls = @ + 1]
              ELSE sv.dayCounter
      st == recordSuccess(sv.states, provider)
      envelope == [mode |-> "basic", provider |-> provider, query |-> t.req.query,
                   data |-> dedupeResults(results),
                   debugTrace |-> Append(t.trace,
                                         Event("provider_success", [provider |-> provider]))]
      ttl == cfg.cache.ttlSecondsBasic
      written == cacheWrite(sv.store, t.cacheKey, envelope, ttl, t.trace, clock)
  IN TierReturned(Logged([t EXCEPT !.trace = written.trace], "ok", provider, NoDetails),
                  envelope,
                  [store |-> written.store, states |-> st, dayCounter |-> dc])

\* the code after `await searchTavily/searchPerplexity` resolved with `aiResult`
basicSuccess(t, results, sv, clock) ==
  LET provider == t.providers[t.idx]
      dc == IF provider = "brave"
              THEN [sv.dayCounter EXCEPT !.braveCalls = @ + 1]
              ELSE sv.dayCounter
      st == recordSuccess(sv.states, provider)
      envelope == [mode |-> "basic", provider |-> provider, query |-> t.req.query,
                   data |-> dedupeResults(results),
                   debugTrace |-> Append(t.trace,
                                         Event("provider_success", [provider |-> provider]))]
      ttl == IF provider = "brave" THEN cfg.cache.ttlSecondsBrave
                                   ELSE cfg.cache.ttlSecondsBasic
      written == cacheWrite(sv.store, t.cacheKey, envelope, ttl, t.trace, clock)
  IN TierReturned(Logged([t EXCEPT !.trace = written.trace], "ok", provider, NoDetails),
                  envelope,
                  [store |-> written.store, states |-> st, dayCounter |-> dc])

\* the code after `await searchTavily/searchPerplexity` resolved with `aiResult`
aiSuccess(t, aiResult, sv, clock) ==
  LET provider == t.providers[t.idx]
      dc == [sv.dayCounter EXCEPT !.aiCalls = @ + 1]
      st == recordSuccess(sv.states, provider)
      envelope == [mode |-> "ai", provider |-> provider, query |-> t.req.query,
                   data |-> [aiResult EXCEPT !.results = dedupeResults(@)],
                   debugTrace |-> Append(t.trace,
                                         Event("provider_success", [provider |-> provider]))]
      written == cacheWrite(sv.store, t.cacheKey, envelope, cfg.cache.ttlSecondsAi,
                            t.trace, clock)
  IN TierReturned(Logged([t EXCEPT !.trace = written.trace], "ok", provider, NoDetails),
                  envelope,
                  [store |-> written.store, states |-> st, dayCounter |-> dc])

\* mutant: a candidate that failed is given one more try
adapterFailureRetriesOnce(t, message, sv, clock) ==
  LET provider == t.providers[t.idx]
      st == recordFailure(sv.states, provider, clock, failureThreshold, cooldownMs)
      t1 == Pushed([t EXCEPT !.lastError = <<message>>], "provider_error",
                   [provider |-> provider, message |-> message])
      failedBefore == \E k \in 1..Len(t.log) :
                        /\ t.log[k].ev = "fail"
                        /\ t.log[k].tier = t.tier
                        /\ t.log[k].provider = provider
  IN RunLoop(Logged(t1, "fail", provider, [message |-> message]),
             IF failedBefore THEN t.idx + 1 ELSE t.idx,
             [sv EXCEPT !.states = st], clock)

\* mutant: a failed candidate is tried again
adapterFailureRetries(t, message, sv, clock) ==
  LET provider == t.providers[t.idx]
      st == recordFailure(sv.states, provider, clock, failureThreshold, cooldownMs)
      t1 == Pushed([t EXCEPT !.lastError = <<message>>], "provider_error",
                   [provider |-> provider, message |-> message])
  IN RunLoop(Logged(t1, "fail", provider, [message |-> message]), t.idx,
             [sv EXCEPT !.states = st], clock)

\* mutant: the first error of the run is kept, not the last
adapterFailureKeepsFirstError(t, message, sv, clock) ==
  LET provider == t.providers[t.idx]
      st == recordFailure(sv.states, provider, clock, failureThreshold, cooldownMs)
      t1 == Pushed([t EXCEPT !.lastError = IF @ = <<>> THEN <<message>> ELSE @],
                   "provider_error", [provider |-> provider, message |-> message])
  IN RunLoop(Logged(t1, "fail", provider, [message |-> message]), t.idx + 1,
             [sv EXCEPT !.states = st], clock)

\* mutant: the failure is not reported to the breaker
adapterFailureNoRecord(t, message, sv, clock) ==
  LET provider == t.providers[t.idx]
      t1 == Pushed([t EXCEPT !.lastError = <<message>>], "provider_error",
                   [provider |-> provider, message |-> message])
  IN RunLoop(Logged(t1, "fail", provider, [message |-> message]), t.idx + 1, sv, clock)

\* the catch block of the loop, then the loop's next iterations
adapterFailure(t, message, sv, clock) ==
  LET provider == t.providers[t.idx]
      st == recordFailure(sv.states, provider, clock, failureThreshold, cooldownMs)
      t1 == Pushed([t EXCEPT !.lastError = <<message>>], "provider_error",
                   [provider |-> provider, message |-> message])
  IN RunLoop(Logged(t1, "fail", provider, [message |-> message]), t.idx + 1,
             [sv EXCEPT !.states = st], clock)

\* mutant: escalation does not consult the privacy guard
autoEvaluateNoGuard(t, sv, clock) ==
  LET basicEnvelope == t.basicEnvelope[1]
      basicInsufficient == Len(basicEnvelope.data) < cfg.router.minResultsBeforeUpgrade
      intentRequiresAi == shouldUpgradeToAi(t.req.query, cfg.router.upgradeKeywords)
      t1 == Pushed(t, "auto_evaluate_upgrade",
                   [basicResultCount |-> Len(basicEnvelope.data),
                    basicInsufficient |-> basicInsufficient,
                    intentRequiresAi |-> intentRequiresAi])
      payload == asToolPayload(StripTrace(basicEnvelope, t.req.debug))
  IN IF ~basicInsufficient /\ ~intentRequiresAi
       THEN [t |-> [t1 EXCEPT !.pc = "done", !.result = Returned(payload)], sv |-> sv]
       ELSE runAi(t1, sv, clock)

\* webSearchPlus after `await this.runBasic(req, trace)`
autoEvaluate(t, sv, clock) ==
  LET basicEnvelope == t.basicEnvelope[1]
      basicInsufficient == Len(basicEnvelope.data) < cfg.router.minResultsBeforeUpgrade
      intentRequiresAi == shouldUpgradeToAi(t.req.query, cfg.router.upgradeKeywords)
      t1 == Pushed(t, "auto_evaluate_upgrade",
                   [basicResultCount |-> Len(basicEnvelope.data),
                    basicInsufficient |-> basicInsufficient,
                    intentRequiresAi |-> intentRequiresAi])
      payload == asToolPayload(StripTrace(basicEnvelope, t.req.debug))
  IN IF ~basicInsufficient /\ ~intentRequiresAi
       THEN [t |-> [t1 EXCEPT !.pc = "done", !.result = Returned(payload)], sv |-> sv]
     ELSE IF cfg.router.enablePrivacyGuard /\ t.req.query \in SensitiveQueries
       THEN [t |-> [Pushed(t1, "ai_upgrade_blocked_by_privacy_guard", NoDetails)
                      EXCEPT !.pc = "done", !.result = Returned(payload)],
             sv |-> sv]
     ELSE runAi(t1, sv, clock)

\* ---- what the breaker has been told, kept beside it for the properties ----
\* streak: failures recorded since the last success; thresholdAt: the time
\* of the latest recorded failure if it brought the streak to the
\* threshold, else -1; last: the latest call.
NoHistory == [streak |-> 0, thresholdAt |-> -1, last |-> "none"]

SawSuccess(h, provider) ==
  [h EXCEPT ![provider] = [@ EXCEPT !.streak = 0, !.last = "success"]]

SawFailure(h, provider, t) ==
  [h EXCEPT ![provider] =
     [streak |-> @.streak + 1,
      thresholdAt |-> IF @.streak + 1 >= failureThreshold THEN t ELSE -1,
      last |-> "failure"]]

\* ---- inputs ----
KwLatest == <<"L","a","t","e","s","t">>
KwCompare == <<"c","o","m","p","a","r","e">>

Url(base, params) == [parseable |-> TRUE, serialised |-> TRUE, base |-> base, params |-> params]
Result(title, url) == [title |-> title, url |-> url, snippet |-> ""]
R1 == Result("one", Url("https://a.example/", <<"q">>))
R1Tracked == Result("one again", Url("https://a.example/", <<"utm_source", "q">>))
R2 == Result("two", Url("https://b.example/", <<>>))
ResultLists == { <<R1, R1Tracked>>, <<R1, R2>> }
AiResults == { [answer |-> "answer", citations |-> <<"https://a.example/">>,
                results |-> <<R1, R1Tracked>>] }
AdapterErrors == {"HTTP 500", "aborted"}

Request(query, provider, mode, debug) ==
  [query |-> query, provider |-> provider, mode |-> mode,
   language |-> <<>>, country |-> <<>>, category |-> <<>>, freshness |-> <<>>,
   safesearch |-> "", maxResults |-> NotANumber, searchDepth |-> "", debug |-> debug]

Call(tool, rq) == [tool |-> tool, req |-> rq]

Config(searxng, brave, tavily, perplexity, preset, guard, cacheOn, threshold) ==
  [basic |-> [priority |-> <<"brave", "searxng">>,
              searxng |-> [baseUrl |-> searxng, timeoutMs |-> 8000],
              brave |-> [apiKey |-> brave, timeoutMs |-> 8000]],
   ai |-> [priority |-> <<"perplexity">>,
           tavily |-> [apiKey |-> tavily, timeoutMs |-> 12000],
           perplexity |-> [apiKey |-> perplexity, timeoutMs |-> 15000]],
   router |-> [defaultMode |-> "auto", providerPreset |-> preset,
               minResultsBeforeUpgrade |-> 2,
               upgradeKeywords |-> {KwLatest, KwCompare},
               maxBraveCallsPerDay |-> 1, maxAiCallsPerDay |-> 1,
               enablePrivacyGuard |-> guard],
   cache |-> [enabled |-> cacheOn, maxEntries |-> 2,
              ttlSecondsBasic |-> 1, ttlSecondsBrave |-> 2, ttlSecondsAi |-> 3],
   circuitBreaker |-> [failureThreshold |-> threshold, cooldownMs |-> 500]]

\* all four providers configured, preset free, privacy guard and cache on
FullConfig == Config("http://localhost:8888", "key", "key", "key", "free", TRUE, TRUE, 1)
\* only searxng configured, preset custom
BareConfig == Config("http://localhost:8888", "", "", "", "custom", TRUE, TRUE, 0)
\* one provider per tier: brave and perplexity
LeanConfig == Config("", "key", "", "key", "free", TRUE, TRUE, 1)
LeanOpenConfig == Config("", "key", "", "key", "free", FALSE, FALSE, 2)
\* both basic providers, brave first, no ai provider
BraveFirstConfig == Config("http://localhost:8888", "key", "", "", "quality", TRUE, TRUE, 1)
\* brave and perplexity, with the ai tier's daily cap at zero
ZeroAiConfig == [LeanConfig EXCEPT !.router.maxAiCallsPerDay = 0]
\* all four providers under the quality and the custom preset
QualityConfig == Config("http://localhost:8888", "key", "key", "key", "quality", TRUE, TRUE, 1)
CustomConfig == Config("http://localhost:8888", "key", "key", "key", "custom", TRUE, TRUE, 1)
\* both basic providers, searxng first, no ai provider
FreeBasicConfig == Config("http://localhost:8888", "key", "", "", "free", TRUE, TRUE, 1)
\* only ai providers configured
NoBasicConfig == Config("", "", "key", "key", "free", TRUE, TRUE, 1)

\* the calls the host makes in one behaviour: each scenario is a
\* configuration, the number of operations in flight at once, and the
\* tool calls to choose from
AutoCalls ==
  { Call("web_search_plus", Request(q, "", "", TRUE)) : q \in Queries }
    \cup { Call("web_search_plus", Request(QKeyword, "", "auto", FALSE)) }
TierCalls ==
  { Call("web_search_basic", Request(QPlain, "", "", TRUE)),
    Call("web_search_ai", Request(QPlain, "", "", TRUE)),
    Call("web_search_ai", Request(QSecret, "", "", FALSE)),
    Call("web_search_plus", Request(QKeyword, "", "basic", FALSE)),
    Call("web_search_plus", Request(QSecret, "", "ai", TRUE)),
    Call("web_search_plus", Request(QPlain, "", "ai", FALSE)) }
BasicCalls ==
  { Call("web_search_basic", Request(QPlain, "", "", TRUE)),
    Call("web_search_basic", Request(QKeyword, "", "", FALSE)) }
ZeroAiCalls ==
  { Call("web_search_basic", Request(QPlain, "", "", TRUE)),
    Call("web_search_ai", Request(QPlain, "", "", TRUE)),
    Call("web_search_ai", Request(QPlain, "tavily", "", TRUE)) }
QuietCalls ==
  { Call("web_search_plus", Request(QPlain, "", "", FALSE)),
    Call("web_search_plus", Request(QSecret, "", "", FALSE)) }
PlainCalls ==
  { Call("web_search_basic", Request(QPlain, "", "", TRUE)),
    Call("web_search_ai", Request(QPlain, "", "", TRUE)) }
\* a host that repeats a search after another one
MaxRepeatRequests == 3
RepeatCalls ==
  { Call("web_search_basic", Request(QPlain, "", "", TRUE)),
    Call("web_search_basic", Request(QKeyword, "", "", TRUE)) }
\* a host that types one search in two spellings
QShout == <<" ","C","A","T","S">>
SpellingCalls ==
  { Call("web_search_basic", Request(QPlain, "", "", TRUE)),
    Call("web_search_basic", Request(QShout, "", "", TRUE)) }
\* a host that only asks for ai answers
AiOnlyCalls == { Call("web_search_ai", Request(QPlain, "", "", TRUE)) }
\* a host that sends one search again and again
SameCalls == { Call("web_search_basic", Request(QPlain, "", "", TRUE)) }
ProviderCalls ==
  { Call("web_search_basic", Request(QPlain, "brave", "", TRUE)),
    Call("web_search_ai", Request(QPlain, "perplexity", "", FALSE)),
    Call("web_search_plus", Request(QKeyword, "perplexity", "", TRUE)),
    Call("web_search_plus", Request(QKeyword, "brave", "", TRUE)) }

ConcurrentCalls ==
  { Call("web_search_basic", Request(QPlain, "", "", TRUE)),
    Call("web_search_ai", Request(QPlain, "", "", TRUE)),
    Call("web_search_plus", Request(QKeyword, "", "", TRUE)) }

\* one operation at a time
Scenarios ==
  { [cfg |-> FullConfig, slots |-> {1}, calls |-> TierCalls],
    [cfg |-> LeanConfig, slots |-> {1}, calls |-> AutoCalls],
    [cfg |-> LeanOpenConfig, slots |-> {1}, calls |-> AutoCalls],
    [cfg |-> LeanConfig, slots |-> {1}, calls |-> QuietCalls],
    [cfg |-> BraveFirstConfig, slots |-> {1}, calls |-> BasicCalls],
    [cfg |-> QualityConfig, slots |-> {1}, calls |-> PlainCalls],
    [cfg |-> CustomConfig, slots |-> {1}, calls |-> PlainCalls],
    [cfg |-> ZeroAiConfig, slots |-> {1}, calls |-> ZeroAiCalls],
    [cfg |-> FreeBasicConfig, slots |-> {1}, calls |-> RepeatCalls],
    [cfg |-> BareConfig, slots |-> {1}, calls |-> SpellingCalls],
    [cfg |-> BareConfig, slots |-> {1}, calls |-> AutoCalls \cup TierCalls \cup ProviderCalls],
    [cfg |-> NoBasicConfig, slots |-> {1}, calls |-> AutoCalls \cup TierCalls \cup ProviderCalls] }

\* two operations in flight at once
ConcurrentScenarios ==
  { [cfg |-> LeanConfig, slots |-> Slots, calls |-> ConcurrentCalls],
    [cfg |-> LeanOpenConfig, slots |-> Slots, calls |-> ConcurrentCalls],
    [cfg |-> FreeBasicConfig, slots |-> Slots, calls |-> SameCalls],
    [cfg |-> NoBasicConfig, slots |-> Slots, calls |-> AiOnlyCalls] }

AllProviders == BasicProviderName \cup AiProviderName
StartNow == DayMs - TickMs

\* ---- the cache used directly ----
\* keys (the empty string among them), values and lifetimes a caller passes
CacheKeys == { <<>>, <<"a">>, <<"b">> }
CacheValues == {"v1", "v2"}
CacheTtls == {0, 2}
CacheSizes == {0, 2}

\* probe: the latest operation (op, key, value, ttl), when it ran (at), what
\* it returned (ret), what the caller had last written under the key of a get
\* (found), and per key still held the latest write (writes) and the keys in
\* the order of their latest access, oldest first (recent).
NoWrites == [k \in CacheKeys |-> <<>>]
NoProbe ==
  [op |-> "none", key |-> <<>>, value |-> <<>>, ttl |-> 0, at |-> 0,
   ret |-> <<>>, found |-> <<>>, writes |-> NoWrites, recent |-> <<>>]

Constructed(scenarios) ==
  /\ \E s \in scenarios : cfg = s.cfg /\ slots = s.slots /\ calls = s.calls
  /\ now = StartNow
  /\ store = <<>>
  /\ states = <<>>
  /\ dayCounter = [day |-> newDayKey(StartNow), braveCalls |-> 0, aiCalls |-> 0]
  /\ task = [r \in Slots |-> IdleTask]
  /\ started = 0
  /\ hist = [p \in AllProviders |-> NoHistory]

InitWith(scenarios) == Constructed(scenarios) /\ probe = NoProbe

Init == InitWith(Scenarios)

Shared == [store |-> store, states |-> states, dayCounter |-> dayCounter]

Commit(r, out) ==
  /\ task' = [task EXCEPT ![r] = out.t]
  /\ store' = out.sv.store
  /\ states' = out.sv.states
  /\ dayCounter' = out.sv.dayCounter

Free(r) == task[r].pc \in {"idle", "done"}

\* a new operation takes the lowest free slot
\* the number of operations the host starts in one behaviour
RequestCap == IF calls \in {RepeatCalls, SameCalls} THEN MaxRepeatRequests ELSE MaxRequests

CanStart(r) ==
  /\ started < RequestCap
  /\ r \in slots
  /\ Free(r)
  /\ \A q \in slots : q < r => ~Free(q)

Fresh(tool, rq) == [IdleTask EXCEPT !.tool = tool, !.req = rq]

CallWebSearchBasic(r, rq) ==
  /\ CanStart(r)
  /\ Call("web_search_basic", rq) \in calls
  /\ Commit(r, webSearchBasic(Fresh("web_search_basic", rq), Shared, now))
  /\ started' = started + 1
  /\ UNCHANGED <<cfg, slots, calls, probe, now, hist>>

CallWebSearchAi(r, rq) ==
  /\ CanStart(r)
  /\ Call("web_search_ai", rq) \in calls
  /\ Commit(r, webSearchAi(Fresh("web_search_ai", rq), Shared, now))
  /\ started' = started + 1
  /\ UNCHANGED <<cfg, slots, calls, probe, now, hist>>

CallWebSearchPlus(r, rq) ==
  /\ CanStart(r)
  /\ Call("web_search_plus", rq) \in calls
  /\ Commit(r, webSearchPlus(Fresh("web_search_plus", rq), Shared, now))
  /\ started' = started + 1
  /\ UNCHANGED <<cfg, slots, calls, probe, now, hist>>

BasicAdapterResolves(r, results) ==
  /\ task[r].pc = "basic_call"
  /\ Commit(r, basicSuccess(task[r], results, Shared, now))
  /\ hist' = SawSuccess(hist, task[r].providers[task[r].idx])
  /\ UNCHANGED <<cfg, slots, calls, probe, now, started>>

AiAdapterResolves(r, aiResult) ==
  /\ task[r].pc = "ai_call"
  /\ Commit(r, aiSuccess(task[r], aiResult, Shared, now))
  /\ hist' = SawSuccess(hist, task[r].providers[task[r].idx])
  /\ UNCHANGED <<cfg, slots, calls, probe, now, started>>

AdapterRejects(r, message) ==
  /\ task[r].pc \in {"basic_call", "ai_call"}
  /\ Commit(r, adapterFailure(task[r], message, Shared, now))
  /\ hist' = SawFailure(hist, task[r].providers[task[r].idx], now)
  /\ UNCHANGED <<cfg, slots, calls, probe, now, started>>

AutoEvaluate(r) ==
  /\ task[r].pc = "basic_returned"
  /\ Commit(r, autoEvaluate(task[r], Shared, now))
  /\ UNCHANGED <<cfg, slots, calls, probe, now, started, hist>>

Tick ==
  /\ now + TickMs <= StartNow + MaxTicks * TickMs
  /\ now' = now + TickMs
  /\ UNCHANGED <<cfg, slots, calls, probe, store, states, dayCounter, task, started, hist>>

Next ==
  \/ \E r \in Slots, c \in calls : CallWebSearchBasic(r, c.req)
  \/ \E r \in Slots, c \in calls : CallWebSearchAi(r, c.req)
  \/ \E r \in Slots, c \in calls : CallWebSearchPlus(r, c.req)
  \/ \E r \in Slots, results \in ResultLists : BasicAdapterResolves(r, results)
  \/ \E r \in Slots, aiResult \in AiResults : AiAdapterResolves(r, aiResult)
  \/ \E r \in Slots, message \in AdapterErrors : AdapterRejects(r, message)
  \/ \E r \in Slots : AutoEvaluate(r)
  \/ Tick

Spec == Init /\ [][Next]_vars

InitConcurrent == InitWith(ConcurrentScenarios)
SpecConcurrent == InitConcurrent /\ [][Next]_vars

\* ---- every adapter call settles, every continuation is run ----
AdapterSettles(r) ==
  \/ \E results \in ResultLists : BasicAdapterResolves(r, results)
  \/ \E aiResult \in AiResults : AiAdapterResolves(r, aiResult)
  \/ \E message \in AdapterErrors : AdapterRejects(r, message)

LiveScenarios ==
  { [cfg |-> FullConfig, slots |-> {1}, calls |-> TierCalls],
    [cfg |-> LeanConfig, slots |-> {1}, calls |-> AutoCalls],
    [cfg |-> LeanOpenConfig, slots |-> Slots, calls |-> ConcurrentCalls] }

InitLive == InitWith(LiveScenarios)

AwaitsAdapter(r) == task[r].pc \in {"basic_call", "ai_call"}
AwaitsContinuation(r) == task[r].pc = "basic_returned"

\* Weak fairness of the two kinds of step an operation under way waits for,
\* written out with the enabling condition of each: an adapter's promise
\* settles (fetchJson aborts the request after timeoutMs at the latest), and
\* a continuation that has become runnable is run by the event loop.
Fairness ==
  \A r \in Slots :
    /\ <>[]AwaitsAdapter(r) => []<><<AdapterSettles(r)>>_vars
    /\ <>[]AwaitsContinuation(r) => []<><<AutoEvaluate(r)>>_vars

SpecLive == InitLive /\ [][Next]_vars /\ Fairness

KeysOf(st) == [i \in 1..Len(st) |-> st[i].key]
Without(seq, x) == SelectSeq(seq, LAMBDA y : y # x)
Kept(seq, st) == SelectSeq(seq, LAMBDA y : HasKey(st, y))

\* cache.set(key, value, ttlSeconds) called directly
CacheSetOp(key, value, ttlSeconds) ==
  LET after == CacheSet(store, key, value, ttlSeconds, now, maxEntries)
      write == [value |-> value, ttl |-> ttlSeconds, at |-> now]
  IN /\ store' = after
     /\ probe' = [op |-> "set", key |-> key, value |-> <<value>>, ttl |-> ttlSeconds,
                  at |-> now, ret |-> <<>>, found |-> <<>>,
                  writes |-> [k \in CacheKeys |->
                                IF ~HasKey(after, k) THEN <<>>
                                ELSE IF k = key THEN <<write>>
                                ELSE probe.writes[k]],
                  recent |-> Kept(Append(Without(probe.recent, key), key), after)]
     /\ UNCHANGED <<cfg, slots, calls, now, states, dayCounter, task, started, hist>>

\* cache.get(key) called directly
CacheGetOp(key) ==
  LET got == CacheGet(store, key, now)
      order == IF got.value # <<>> THEN Append(Without(probe.recent, key), key)
                                   ELSE probe.recent
  IN /\ store' = got.store
     /\ probe' = [op |-> "get", key |-> key, value |-> <<>>, ttl |-> 0,
                  at |-> now, ret |-> got.value, found |-> probe.writes[key],
                  writes |-> [k \in CacheKeys |->
                                IF HasKey(got.store, k) THEN probe.writes[k] ELSE <<>>],
                  recent |-> Kept(order, got.store)]
     /\ UNCHANGED <<cfg, slots, calls, now, states, dayCounter, task, started, hist>>

CacheConfig(size) == [LeanConfig EXCEPT !.cache.maxEntries = size]

InitCache ==
  InitWith({ [cfg |-> CacheConfig(size), slots |-> {}, calls |-> {}] : size \in CacheSizes })

NextCache ==
  \/ \E key \in CacheKeys, value \in CacheValues, ttlSeconds \in CacheTtls :
       CacheSetOp(key, value, ttlSeconds)
  \/ \E key \in CacheKeys : CacheGetOp(key)
  \/ Tick

SpecCache == InitCache /\ [][NextCache]_vars

\* ---- the breaker registry used directly ----
BreakerThresholds == {0, 1, 2, 3}
BreakerCooldowns == {500, 2000}
BreakerProviders == {"searxng", "brave"}
MaxFailures == 4

BreakerConfig(threshold, cooldown) ==
  [LeanConfig EXCEPT !.circuitBreaker =
     [failureThreshold |-> threshold, cooldownMs |-> cooldown]]

InitBreaker ==
  InitWith({ [cfg |-> BreakerConfig(threshold, cooldown), slots |-> {}, calls |-> {}] :
               threshold \in BreakerThresholds, cooldown \in BreakerCooldowns })

\* breaker.recordFailure(provider) called directly
RecordFailureOp(provider) ==
  /\ hist[provider].streak < MaxFailures
  /\ states' = recordFailure(states, provider, now, failureThreshold, cooldownMs)
  /\ hist' = SawFailure(hist, provider, now)
  /\ UNCHANGED <<cfg, slots, calls, probe, now, store, dayCounter, task, started>>

\* breaker.recordSuccess(provider) called directly
RecordSuccessOp(provider) ==
  /\ states' = recordSuccess(states, provider)
  /\ hist' = SawSuccess(hist, provider)
  /\ UNCHANGED <<cfg, slots, calls, probe, now, store, dayCounter, task, started>>

\* breaker.isAvailable(provider) called directly
IsAvailableOp(provider) ==
  /\ probe' = [NoProbe EXCEPT !.op = "isAvailable", !.key = NameChars(provider),
                              !.at = now, !.ret = <<isAvailable(states, provider, now)>>]
  /\ UNCHANGED <<cfg, slots, calls, now, store, states, dayCounter, task, started, hist>>

NextBreaker ==
  \/ \E provider \in BreakerProviders : RecordFailureOp(provider)
  \/ \E provider \in BreakerProviders : RecordSuccessOp(provider)
  \/ \E provider \in BreakerProviders : IsAvailableOp(provider)
  \/ Tick

SpecBreaker == InitBreaker /\ [][NextBreaker]_vars

\* ---- the pure functions of utils.ts applied to drawn inputs ----
ClampMargin == 3
ClampNumbers == (MinResults - ClampMargin)..(MaxResultsCap + ClampMargin)
ClampValues == {NotANumber} \cup {Num(n) : n \in ClampNumbers}

Applied(op, in) == [op |-> op, in |-> in, ret |-> <<>>]

MaxParams == 2
MaxResultRows == 3

SeqsUpTo(S, n) == UNION {[1..k -> S] : k \in 0..n}

ParamNames == DropKeys \cup {"q", "page"}
RawUrl(serialised, base, params) ==
  [parseable |-> TRUE, serialised |-> serialised, base |-> base, params |-> params]
NotAUrl == [parseable |-> FALSE, serialised |-> FALSE, base |-> "not a url", params |-> <<>>]

\* one side of a key comparison: the arguments of buildCacheKey
Keyed(tier, provider, rq) == [tier |-> tier, provider |-> provider, req |-> rq]
NoKeyed == Keyed("basic", "searxng", Request(<<>>, "", "", FALSE))

NoInput ==
  [value |-> NotANumber, fallback |-> 0, raw |-> NotAUrl, results |-> <<>>,
   first |-> NoKeyed, second |-> NoKeyed]

ClampInputs ==
  {Applied("clampMaxResults", [NoInput EXCEPT !.value = value, !.fallback = fallback]) :
     value \in ClampValues, fallback \in ClampNumbers}

UrlInputs ==
  {NotAUrl} \cup
  {RawUrl(serialised, "https://a.example/", params) :
     serialised \in BOOLEAN, params \in SeqsUpTo(ParamNames, MaxParams)}

NormalizeInputs ==
  {Applied("normalizeUrl", [NoInput EXCEPT !.raw = raw]) : raw \in UrlInputs}

RowUrls ==
  { RawUrl(TRUE, "https://a.example/", <<"q">>),
    RawUrl(FALSE, "https://a.example/", <<"utm_source", "q">>),
    RawUrl(TRUE, "https://a.example/", <<"q", "ref">>),
    RawUrl(TRUE, "https://b.example/", <<>>),
    NotAUrl }
Rows == {Result(title, url) : title \in {"one", "two"}, url \in RowUrls}

DedupeInputs ==
  {Applied("dedupeResults", [NoInput EXCEPT !.results = results]) :
     results \in SeqsUpTo(Rows, MaxResultRows)}

\* requests as toRequest builds them: any string for the text fields, any
\* number for maxResults
KeyQueries == { <<"a">>, <<" ","A"," ">>, <<"a","|">>, <<"b">> }
KeyLocales == { <<>>, <<"|">> }
KeyFreshness == { <<>>, <<"d">> }
KeyCategories == { <<>>, <<"n">> }
KeyCounts == { NotANumber, Num(DefaultMaxResults), Num(DefaultMaxResults + 2) }
KeyExtras ==
  { [safesearch |-> "", searchDepth |-> "", debug |-> FALSE],
    [safesearch |-> "strict", searchDepth |-> "advanced", debug |-> TRUE] }
KeyTargets ==
  { [tier |-> "basic", provider |-> "searxng"],
    [tier |-> "basic", provider |-> "brave"],
    [tier |-> "ai", provider |-> "tavily"] }

KeyRequest(query, language, country, freshness, category, maxResults, extra) ==
  [Request(query, "", "", extra.debug) EXCEPT
     !.language = language, !.country = country, !.freshness = freshness,
     !.category = category, !.maxResults = maxResults,
     !.safesearch = extra.safesearch, !.searchDepth = extra.searchDepth]

KeyRequests ==
  { KeyRequest(query, language, country, freshness, category, maxResults, extra) :
      query \in KeyQueries, language \in KeyLocales, country \in KeyLocales,
      freshness \in KeyFreshness, category \in KeyCategories,
      maxResults \in KeyCounts, extra \in KeyExtras }

PlainExtra == [safesearch |-> "", searchDepth |-> "", debug |-> FALSE]
KeyFirsts ==
  { Keyed("basic", "searxng",
          KeyRequest(<<"a">>, language, <<>>, <<>>, <<>>, NotANumber, PlainExtra)) :
      language \in KeyLocales }
KeySeconds == { Keyed(t.tier, t.provider, rq) : t \in KeyTargets, rq \in KeyRequests }

KeyInputs ==
  { Applied("buildCacheKey", [NoInput EXCEPT !.first = first, !.second = second]) :
      first \in KeyFirsts, second \in KeySeconds }

UtilInputs == ClampInputs \cup NormalizeInputs \cup DedupeInputs \cup KeyInputs

InitUtils ==
  /\ Constructed({ [cfg |-> BareConfig, slots |-> {}, calls |-> {}] })
  /\ probe \in UtilInputs

Apply(op, ret) ==
  /\ probe.op = op
  /\ probe.ret = <<>>
  /\ probe' = [probe EXCEPT !.ret = <<ret>>]
  /\ UNCHANGED <<cfg, slots, calls, now, store, states, dayCounter, task, started, hist>>

ClampOp == Apply("clampMaxResults", clampMaxResults(probe.in.value, probe.in.fallback))

NormalizeOp == Apply("normalizeUrl", normalizeUrl(probe.in.raw))

DedupeOp == Apply("dedupeResults", dedupeResults(probe.in.results))

KeyFor(k) == buildCacheKey(k.tier, k.provider, k.req)
BuildCacheKeyOp ==
  Apply("buildCacheKey", [first |-> KeyFor(probe.in.first), second |-> KeyFor(probe.in.second)])

NextUtils ==
  \/ ClampOp
  \/ NormalizeOp
  \/ DedupeOp
  \/ BuildCacheKeyOp

SpecUtils == InitUtils /\ [][NextUtils]_vars

\* ------------------------------------------------------------ properties
\* what the heuristics are expected to say about the query texts
ExpectedSensitive == {QSecret, QPhoneKeyword}
ExpectedKeyword == {QKeyword, QPhoneKeyword}

Has(t, ev, tier) ==
  \E k \in 1..Len(t.log) : t.log[k].ev = ev /\ t.log[k].tier = tier

AdapterStarted(t, names) ==
  \E k \in 1..Len(t.log) : t.log[k].ev = "start" /\ t.log[k].provider \in names

Payload(t) == t.result.value[1]

SameSearch(e1, e2) ==
  /\ e1.mode = e2.mode
  /\ e1.provider = e2.provider
  /\ e1.query = e2.query
  /\ e1.data = e2.data

\* C1: in automatic mode, once the basic run has returned an envelope, the
\* operation never fails; when the ai run throws (every provider failed or
\* skipped, budget reached, configuration error) the operation returns the
\* basic envelope already computed, and nothing of the basic tier runs again.
C1_AiFailureFallsBack ==
  \A r \in Slots :
    LET t == task[r]
    IN (t.auto /\ t.basicEnvelope # <<>>) =>
         /\ t.result.status # "failed"
         /\ \A j \in 1..Len(t.log) : \A k \in (j + 1)..Len(t.log) :
              (t.log[j].ev = "return" /\ t.log[j].tier = "basic") => t.log[k].tier # "basic"
         /\ Has(t, "throw", "ai") =>
              /\ t.pc = "done"
              /\ t.result.status = "returned"
              /\ SameSearch(Payload(t).structuredContent, t.basicEnvelope[1])
              /\ Payload(t).content[1].text = serializeOutput(Payload(t).structuredContent)

C1_Witness ==
  \E r \in Slots :
    /\ task[r].auto /\ task[r].pc = "done"
    /\ Has(task[r], "fail", "ai") /\ Has(task[r], "throw", "ai")
    /\ task[r].result.status = "returned"

\* C2: in automatic mode with the privacy guard enabled and a sensitive
\* query, the ai tier is never entered (no budget check, cache read or
\* adapter call) and the operation returns the basic envelope, whatever the
\* result count and the keywords.
C2_GuardKeepsAutoOnBasic ==
  \A r \in Slots :
    LET t == task[r]
    IN (t.auto /\ cfg.router.enablePrivacyGuard /\ t.req.query \in ExpectedSensitive) =>
         /\ \A k \in 1..Len(t.log) : t.log[k].tier # "ai"
         /\ t.pc # "ai_call"
         /\ (t.pc = "done" /\ t.basicEnvelope # <<>>) =>
              t.result = Returned(asToolPayload(StripTrace(t.basicEnvelope[1], t.req.debug)))

C2_Witness ==
  \E r \in Slots :
    /\ task[r].auto /\ task[r].pc = "done" /\ cfg.router.enablePrivacyGuard
    /\ task[r].req.query = QPhoneKeyword
    /\ task[r].result.status = "returned"
    /\ task[r].trace[Len(task[r].trace)].step = "ai_upgrade_blocked_by_privacy_guard"

\* C3: while the privacy guard is enabled no ai adapter (tavily, perplexity)
\* is started with a sensitive query, by any entry point.
C3_NoSensitiveQueryToAi ==
  cfg.router.enablePrivacyGuard =>
    \A r \in Slots : \A k \in 1..Len(task[r].log) :
      (task[r].log[k].ev = "start" /\ task[r].log[k].provider \in AiProviderName) =>
        task[r].log[k].args.query \notin ExpectedSensitive

C3_Witness ==
  /\ cfg.router.enablePrivacyGuard
  /\ started = MaxRequests
  /\ \E r \in Slots :
       /\ task[r].tool \in {"web_search_ai", "web_search_plus"}
       /\ task[r].req.mode = "ai" \/ task[r].tool = "web_search_ai"
       /\ task[r].req.query \in ExpectedSensitive
       /\ task[r].pc = "done"

\* C4: in automatic mode, after a basic envelope, the ai tier is entered
\* exactly when (fewer results than the threshold or a keyword in the
\* query, case-insensitively) and not (guard enabled and query sensitive);
\* with neither trigger the basic envelope is returned, no ai adapter called.
C4_EscalationPolicy ==
  \A r \in Slots :
    LET t == task[r]
    IN (t.auto /\ t.basicEnvelope # <<>> /\ t.pc # "basic_returned") =>
         LET insufficient == Len(t.basicEnvelope[1].data) < cfg.router.minResultsBeforeUpgrade
             keyword == t.req.query \in ExpectedKeyword
             blocked == cfg.router.enablePrivacyGuard /\ t.req.query \in ExpectedSensitive
         IN /\ Has(t, "enter", "ai") <=> ((insufficient \/ keyword) /\ ~blocked)
            /\ (~insufficient /\ ~keyword) =>
                 /\ ~AdapterStarted(t, AiProviderName)
                 /\ t.result = Returned(asToolPayload(StripTrace(t.basicEnvelope[1], t.req.debug)))

C4_Witness ==
  \E r \in Slots :
    /\ task[r].auto /\ task[r].basicEnvelope # <<>>
    /\ Len(task[r].basicEnvelope[1].data) >= cfg.router.minResultsBeforeUpgrade
    /\ task[r].req.query = QKeyword
    /\ AdapterStarted(task[r], AiProviderName)

HasCands(t, tier) == Has(t, "candidates", tier)

\* the candidate list of the tier run
Cands(t, tier) ==
  t.log[CHOOSE k \in 1..Len(t.log) :
          t.log[k].ev = "candidates" /\ t.log[k].tier = tier].args.providers

IndexIn(seq, x) == CHOOSE i \in 1..Len(seq) : seq[i] = x

Tiers == {"basic", "ai"}
SkipOrFail == {"skip_open", "skip_budget", "fail"}

\* C5: within one tier run adapters are started in candidate order and one
\* at a time: a candidate's adapter starts only after every earlier
\* candidate was skipped or failed, at most once, never after a success or
\* a cache hit, and its end is the next thing the request does.
C5_SequentialInOrder ==
  \A r \in Slots : \A tier \in Tiers :
    LET t == task[r]
        log == t.log
    IN \A k \in 1..Len(log) :
         (log[k].ev = "start" /\ log[k].tier = tier) =>
           /\ HasCands(t, tier)
           /\ \E c \in 1..Len(Cands(t, tier)) : Cands(t, tier)[c] = log[k].provider
           /\ \A c \in 1..(IndexIn(Cands(t, tier), log[k].provider) - 1) :
                \E j \in 1..(k - 1) :
                  /\ log[j].tier = tier
                  /\ log[j].provider = Cands(t, tier)[c]
                  /\ log[j].ev \in SkipOrFail
           /\ \A j \in 1..(k - 1) :
                log[j].tier = tier =>
                  /\ log[j].ev \notin {"ok", "cache_hit", "return"}
                  /\ ~(log[j].ev = "start" /\ log[j].provider = log[k].provider)
           /\ IF k = Len(log)
                THEN t.pc = (IF tier = "basic" THEN "basic_call" ELSE "ai_call")
                ELSE log[k + 1].ev \in {"ok", "fail"} /\ log[k + 1].provider = log[k].provider

C5_Witness ==
  \E r \in Slots : \E j, k \in 1..Len(task[r].log) :
    /\ j < k
    /\ task[r].log[j].ev = "start" /\ task[r].log[k].ev = "start"
    /\ task[r].log[j].tier = task[r].log[k].tier
    /\ task[r].pc = "done"

SkipEvent(provider) == Event("provider_skipped_circuit_open", [provider |-> provider])

InTrace(trace, event) == \E i \in 1..Len(trace) : trace[i] = event

FirstOpenSecondOk(t, tier) ==
  /\ HasCands(t, tier)
  /\ Len(Cands(t, tier)) >= 2
  /\ \E j, k \in 1..Len(t.log) :
       /\ t.log[j].tier = tier /\ t.log[j].ev = "skip_open"
       /\ t.log[j].provider = Cands(t, tier)[1]
       /\ t.log[k].tier = tier /\ t.log[k].ev = "ok"
       /\ t.log[k].provider = Cands(t, tier)[2]

\* C6: when the first candidate is skipped because its breaker is open and
\* the second candidate's adapter succeeds, the first adapter is not
\* started, the envelope names the second provider, and its trace (returned
\* when debug is requested) holds the skip event of the first.
C6_OpenProviderSkipped ==
  \A r \in Slots : \A tier \in Tiers :
    LET t == task[r]
    IN FirstOpenSecondOk(t, tier) =>
         /\ ~\E k \in 1..Len(t.log) :
               /\ t.log[k].tier = tier /\ t.log[k].ev = "start"
               /\ t.log[k].provider = Cands(t, tier)[1]
         /\ \E k \in 1..Len(t.log) :
               /\ t.log[k].tier = tier /\ t.log[k].ev = "return"
               /\ t.log[k].args.envelope.provider = Cands(t, tier)[2]
               /\ InTrace(t.log[k].args.envelope.debugTrace, SkipEvent(Cands(t, tier)[1]))
         /\ (~t.auto /\ t.req.debug) =>
               /\ t.pc = "done" /\ t.result.status = "returned"
               /\ Payload(t).structuredContent.provider = Cands(t, tier)[2]
               /\ InTrace(Payload(t).structuredContent.debugTrace, SkipEvent(Cands(t, tier)[1]))

C6_Witness ==
  \E r \in Slots : \E tier \in Tiers :
    /\ FirstOpenSecondOk(task[r], tier)
    /\ task[r].req.debug
    /\ task[r].pc = "done"

AllCandidatesFailed(t, tier) ==
  /\ HasCands(t, tier)
  /\ \A c \in 1..Len(Cands(t, tier)) :
       \E k \in 1..Len(t.log) :
         /\ t.log[k].tier = tier /\ t.log[k].ev = "fail"
         /\ t.log[k].provider = Cands(t, tier)[c]

LastFailure(t) ==
  t.log[CHOOSE k \in 1..Len(t.log) :
          /\ t.log[k].ev = "fail"
          /\ \A j \in (k + 1)..Len(t.log) : t.log[j].ev # "fail"]

\* C7: when every candidate of the tier was tried and failed, the basic-only
\* or ai-only operation fails with one error that names the tier and carries
\* the message of the last failure; no envelope, no cache write.
C7_AllFailedError ==
  \A r \in Slots :
    LET t == task[r]
    IN (~t.auto /\ t.tier \in Tiers /\ AllCandidatesFailed(t, t.tier)) =>
         /\ t.pc = "done"
         /\ t.result = Failed(Err("all_providers_failed", t.tier, LastFailure(t).args.message))
         /\ ~Has(t, "return", t.tier)
         /\ ~\E i \in 1..Len(t.trace) : t.trace[i].step = "cache_set"
         /\ \A c \in 1..Len(Cands(t, t.tier)) :
              ~HasKey(store, buildCacheKey(t.tier, Cands(t, t.tier)[c], t.req))

C7_Witness ==
  \E r \in Slots : \E j, k \in 1..Len(task[r].log) :
    /\ ~task[r].auto /\ task[r].tier \in Tiers
    /\ AllCandidatesFailed(task[r], task[r].tier)
    /\ j < k
    /\ task[r].log[j].ev = "fail" /\ task[r].log[k].ev = "fail"
    /\ task[r].log[j].args.message # task[r].log[k].args.message

\* whether the configuration holds the credentials / endpoint of a provider
Configured(p) ==
  CASE p = "searxng" -> cfg.basic.searxng.baseUrl # ""
    [] p = "brave" -> cfg.basic.brave.apiKey # ""
    [] p = "tavily" -> cfg.ai.tavily.apiKey # ""
    [] p = "perplexity" -> cfg.ai.perplexity.apiKey # ""

TierProviders(tier) == IF tier = "basic" THEN BasicProviderName ELSE AiProviderName

Listed(tier) ==
  IF cfg.router.providerPreset = "custom"
    THEN LET priority == IF tier = "basic" THEN cfg.basic.priority ELSE cfg.ai.priority
         IN {priority[i] : i \in 1..Len(priority)}
    ELSE TierProviders(tier)

\* the configuration error a run of the tier must meet for this request
ConfigFault(tier, rq) ==
  IF rq.provider \in TierProviders(tier)
    THEN IF Configured(rq.provider) THEN <<>>
         ELSE <<Err("provider_not_configured", tier, rq.provider)>>
    ELSE IF \E p \in Listed(tier) : Configured(p) THEN <<>>
         ELSE <<Err("no_provider_configured", tier, "")>>

ConfigErrorKinds == {"provider_not_configured", "no_provider_configured"}

ModeOf(t) ==
  IF t.tool = "web_search_basic" THEN "basic"
  ELSE IF t.tool = "web_search_ai" THEN "ai"
  ELSE IF t.req.mode # "" THEN t.req.mode
  ELSE cfg.router.defaultMode

PrivacyError == Err("privacy_guard_blocked", "ai", "")

\* C9 as stated: with mode basic or ai the request goes straight into that
\* tier's loop, the privacy guard is not applied and a guard match is never
\* an error.
C9_Original ==
  \A r \in Slots :
    LET t == task[r]
    IN (t.tool # "" /\ ModeOf(t) \in Tiers) =>
         /\ Len(t.log) >= 1
         /\ t.log[1].ev = "enter" /\ t.log[1].tier = ModeOf(t)
         /\ t.result # Failed(PrivacyError)

\* C9 amended: with mode basic the request goes straight into the basic
\* loop; with mode ai the privacy guard is applied first: when it is enabled
\* and the query is sensitive the operation fails with the privacy-guard
\* error before the ai loop is entered, otherwise the request goes straight
\* into the ai loop. In both modes the escalation policy is not applied and
\* only that tier ever runs.
C9_ExplicitModeSingleTier ==
  \A r \in Slots :
    LET t == task[r]
    IN (t.tool # "" /\ ModeOf(t) \in Tiers) =>
         /\ ~t.auto
         /\ \A k \in 1..Len(t.log) : t.log[k].tier = ModeOf(t)
         /\ ~\E i \in 1..Len(t.trace) : t.trace[i].step = "auto_evaluate_upgrade"
         /\ IF /\ ModeOf(t) = "ai"
               /\ cfg.router.enablePrivacyGuard
               /\ t.req.query \in ExpectedSensitive
              THEN t.pc = "done" /\ t.log = <<>> /\ t.result = Failed(PrivacyError)
              ELSE /\ Len(t.log) >= 1
                   /\ t.log[1].ev = "enter" /\ t.log[1].tier = ModeOf(t)
                   /\ t.result # Failed(PrivacyError)

C9_Witness ==
  \E r \in Slots :
    /\ task[r].tool = "web_search_plus" /\ task[r].req.mode = "ai"
    /\ cfg.router.enablePrivacyGuard
    /\ task[r].req.query \in ExpectedSensitive
    /\ task[r].result = Failed(PrivacyError)

\* C10 as stated: once the consecutive failures of a provider have reached
\* the threshold, it is unavailable before (time of that failure +
\* cooldownMs) and available from then on, as long as no further failure is
\* recorded; a provider never observed is available.
C10_Original ==
  \A p \in AllProviders :
    /\ p \notin DOMAIN states => isAvailable(states, p, now)
    /\ hist[p].thresholdAt >= 0 =>
         (isAvailable(states, p, now) <=> now >= hist[p].thresholdAt + cooldownMs)

\* C10 amended: the same, as long as neither a further failure nor a
\* success is recorded (a success closes the breaker at once).
C10_OpenUntilCooldown ==
  \A p \in AllProviders :
    /\ p \notin DOMAIN states => isAvailable(states, p, now)
    /\ (hist[p].thresholdAt >= 0 /\ hist[p].last = "failure") =>
         /\ hist[p].streak >= failureThreshold
         /\ (isAvailable(states, p, now) <=> now >= hist[p].thresholdAt + cooldownMs)

C10_Witness ==
  \E p \in AllProviders :
    /\ failureThreshold > MinFailureThreshold
    /\ hist[p].last = "failure"
    /\ hist[p].streak = failureThreshold
    /\ now = hist[p].thresholdAt + cooldownMs
    /\ isAvailable(states, p, now)

\* the provider whose adapter call slot r awaits
Awaited(r) == task[r].providers[task[r].idx]

\* slot r's adapter call resolves in this step
Resolves(r) ==
  \/ \E results \in ResultLists : BasicAdapterResolves(r, results)
  \/ \E aiResult \in AiResults : AiAdapterResolves(r, aiResult)

\* C11: whenever the latest call recorded for a provider is a success, its
\* failure count is 0, open-until is cleared and it is available, even
\* inside the cooldown of an earlier threshold-reaching failure; the stored
\* failure count always equals the failures recorded since the last success;
\* and the step that records a success for one provider leaves every other
\* provider's breaker state as it was.
C11_SuccessResets ==
  /\ [](\A p \in AllProviders :
          /\ hist[p].last = "success" =>
               /\ p \in DOMAIN states
               /\ states[p].failures = 0 /\ states[p].openedUntil = 0
               /\ isAvailable(states, p, now)
          /\ p \in DOMAIN states => states[p].failures = hist[p].streak)
  /\ [][\A r \in Slots : Resolves(r) =>
          \A q \in AllProviders \ {Awaited(r)} :
            /\ (q \in DOMAIN states') = (q \in DOMAIN states)
            /\ q \in DOMAIN states => states'[q] = states[q]]_vars

\* a success recorded inside the cooldown of an open breaker
C11_Witness ==
  \E p \in AllProviders :
    /\ hist[p].last = "success"
    /\ hist[p].thresholdAt >= 0
    /\ now < hist[p].thresholdAt + cooldownMs
    /\ isAvailable(states, p, now)

\* the calls counted for the day the clock is in
CountedToday == resetDailyCounterIfNeeded(dayCounter, now)

\* C12: in every reachable state the brave call count recorded for the
\* current day is at most maxBraveCallsPerDay and the ai call count is at
\* most maxAiCallsPerDay.
C12_BudgetsNeverExceeded ==
  /\ CountedToday.braveCalls <= cfg.router.maxBraveCallsPerDay
  /\ CountedToday.aiCalls <= cfg.router.maxAiCallsPerDay

\* the log entries slot r's operation appends in this step
NewEntries(r) ==
  IF task'[r] = task[r] THEN <<>>
  ELSE IF Free(r) THEN task'[r].log
  ELSE SubSeq(task'[r].log, Len(task[r].log) + 1, Len(task'[r].log))

BudgetSkipEvent == Event("provider_skipped_budget", [provider |-> "brave"])

\* C13: a budget skip happens only to brave in a basic run; it leaves a
\* trace event, brave's adapter is neither started nor answered from the
\* cache in that run, and the loop goes on: the log continues with the next
\* candidate, or with the all-providers-failed throw when brave was the last
\* one. In the step that skips brave the counted calls have reached the cap
\* and brave's breaker state is unchanged; in a step where brave is started
\* or read from the cache the calls counted today are below the cap.
C13_BudgetSkip ==
  /\ [](\A r \in Slots : \A k \in 1..Len(task[r].log) :
          LET t == task[r]
          IN t.log[k].ev = "skip_budget" =>
               /\ t.log[k].tier = "basic" /\ t.log[k].provider = "brave"
               /\ InTrace(t.trace, BudgetSkipEvent)
               /\ ~\E j \in 1..Len(t.log) :
                     /\ t.log[j].provider = "brave"
                     /\ t.log[j].ev \in {"start", "ok", "fail", "cache_hit"}
               /\ k < Len(t.log)
               /\ LET cands == Cands(t, "basic")
                      at == IndexIn(cands, "brave")
                  IN IF at = Len(cands)
                       THEN /\ t.log[k + 1].ev = "throw"
                            /\ t.log[k + 1].args.error.kind = "all_providers_failed"
                       ELSE /\ t.log[k + 1].provider = cands[at + 1]
                            /\ t.log[k + 1].ev \in {"skip_open", "cache_hit", "start"})
  /\ [][\A r \in Slots : \A k \in 1..Len(NewEntries(r)) :
          LET e == NewEntries(r)[k]
          IN /\ e.ev = "skip_budget" =>
                  /\ dayCounter'.braveCalls >= cfg.router.maxBraveCallsPerDay
                  /\ ("brave" \in DOMAIN states') = ("brave" \in DOMAIN states)
                  /\ "brave" \in DOMAIN states => states'["brave"] = states["brave"]
             /\ (e.provider = "brave" /\ e.ev \in {"start", "cache_hit"}) =>
                  resetDailyCounterIfNeeded(dayCounter', now').braveCalls
                    < cfg.router.maxBraveCallsPerDay]_vars

\* brave skipped for its budget and the next candidate's adapter started
C13_Witness ==
  \E r \in Slots : \E k \in 1..Len(task[r].log) :
    /\ task[r].log[k].ev = "skip_budget"
    /\ k < Len(task[r].log)
    /\ task[r].log[k + 1].ev = "start"
    /\ task[r].log[k + 1].provider = "searxng"

BudgetThrow(e) == e.ev = "throw" /\ e.args.error.kind = "daily_ai_budget_reached"

\* C14: an ai run that fails with the budget error did nothing between
\* entering and throwing: no candidate list, no breaker skip, no cache hit,
\* no adapter call. In the step that enters an ai run, if the ai calls
\* counted today are at or above maxAiCallsPerDay the run throws the budget
\* error at once and the cache, the breaker states and the counts of the
\* day are as before; otherwise it does not throw the budget error.
C14_AiBudgetUpfront ==
  /\ [](\A r \in Slots : \A k \in 1..Len(task[r].log) :
          LET t == task[r]
          IN BudgetThrow(t.log[k]) =>
               /\ t.log[k].tier = "ai"
               /\ k > 1 /\ t.log[k - 1].ev = "enter" /\ t.log[k - 1].tier = "ai"
               /\ ~\E j \in 1..Len(t.log) :
                     /\ t.log[j].tier = "ai"
                     /\ t.log[j].ev \in {"candidates", "skip_open", "skip_budget",
                                         "cache_hit", "start", "ok", "fail"})
  /\ [][\A r \in Slots : \A k \in 1..Len(NewEntries(r)) :
          LET new == NewEntries(r)
          IN (new[k].ev = "enter" /\ new[k].tier = "ai") =>
               IF CountedToday.aiCalls >= cfg.router.maxAiCallsPerDay
                 THEN /\ Len(new) = k + 1
                      /\ BudgetThrow(new[k + 1])
                      /\ store' = store
                      /\ states' = states
                      /\ resetDailyCounterIfNeeded(dayCounter', now') = CountedToday
                 ELSE ~(k < Len(new) /\ BudgetThrow(new[k + 1]))]_vars

\* the budget error thrown for a request naming a provider that is not
\* configured: the cap was looked at before the providers
C14_Witness ==
  \E r \in Slots : \E k \in 1..Len(task[r].log) :
    /\ BudgetThrow(task[r].log[k])
    /\ task[r].req.provider \in AiProviderName
    /\ ~Configured(task[r].req.provider)
    /\ task[r].result.status = "failed"

\* what the cache's caller expects of the capacity and of a lifetime
ExpectedCap == IF cfg.cache.maxEntries >= 1 THEN cfg.cache.maxEntries ELSE 1
ExpectedLife(ttlSeconds) == (IF ttlSeconds >= 1 THEN ttlSeconds ELSE 1) * MsPerSecond

EntriesFor(st, key) == {i \in 1..Len(st) : st[i].key = key}

\* C15: whenever a set has returned, the store holds at most max(1, M)
\* entries, for every choice of keys, the empty string included.
C15_SizeBound ==
  probe.op = "set" => Len(store) <= ExpectedCap

\* C16: a set keeps the most recently accessed keys up to the capacity, the
\* written key last, so the keys it evicts are exactly the least recently
\* accessed ones; a get that returns a value moves its key to the most
\* recently used end.
C16_LruEviction ==
  [][\A key \in CacheKeys :
       LET order == Append(Without(probe.recent, key), key)
           excess == IF Len(order) > ExpectedCap THEN Len(order) - ExpectedCap ELSE 0
       IN /\ (\E value \in CacheValues, ttlSeconds \in CacheTtls :
                CacheSetOp(key, value, ttlSeconds)) =>
               /\ HasKey(store', key)
               /\ KeysOf(store') = SubSeq(order, excess + 1, Len(order))
          /\ (CacheGetOp(key) /\ probe'.ret # <<>>) => KeysOf(store') = order]_vars

\* C17: after set(k, v, ttl) the store holds exactly one entry for k, with
\* value v and the new expiry, and a get(k) at the same instant returns v.
C17_SetThenGet ==
  /\ [](probe.op = "set" =>
          /\ Cardinality(EntriesFor(store, probe.key)) = 1
          /\ EntryOf(store, probe.key).value = probe.value[1]
          /\ EntryOf(store, probe.key).expiresAt = probe.at + ExpectedLife(probe.ttl))
  /\ [][\A key \in CacheKeys :
          (CacheGetOp(key) /\ probe.op = "set" /\ probe.key = key /\ probe.at = now) =>
            /\ probe'.ret = probe.value
            /\ Cardinality(EntriesFor(store', key)) = 1]_vars

\* a get in the instant of a set of the same key, after the clock has
\* advanced, returns the written value
C17_Witness ==
  /\ probe.op = "get" /\ probe.found # <<>>
  /\ probe.found[1].at = probe.at
  /\ probe.found[1].at > StartNow
  /\ probe.ret = <<probe.found[1].value>>
  /\ Cardinality(EntriesFor(store, probe.key)) = 1

\* C18: a get of a key last written at time t with ttlSeconds returns the
\* value at every instant before t + max(1, ttlSeconds) seconds; at or after
\* that instant it returns absent and removes the entry, so the store has
\* one entry less.
C18_Expiry ==
  /\ [](probe.op = "get" /\ probe.found # <<>> =>
          LET w == probe.found[1]
          IN IF probe.at < w.at + ExpectedLife(w.ttl)
               THEN probe.ret = <<w.value>> /\ HasKey(store, probe.key)
               ELSE probe.ret = <<>> /\ ~HasKey(store, probe.key))
  /\ [][\A key \in CacheKeys :
          (CacheGetOp(key) /\ probe.writes[key] # <<>>
             /\ now >= probe.writes[key][1].at + ExpectedLife(probe.writes[key][1].ttl)) =>
            /\ Len(store') = Len(store) - 1
            /\ KeysOf(store') = Without(KeysOf(store), key)]_vars

\* a get exactly at the expiry instant of an entry written with ttl 0
C18_Witness ==
  /\ probe.op = "get" /\ probe.found # <<>>
  /\ probe.found[1].ttl = 0
  /\ probe.at = probe.found[1].at + ExpectedLife(0)
  /\ probe.ret = <<>>
  /\ ~HasKey(store, probe.key)

\* slot r's operation has returned a payload for a request without debug
QuietReturn(r) ==
  /\ task[r].pc = "done"
  /\ task[r].result.status = "returned"
  /\ ~task[r].req.debug

SuccessEvent(provider) == Event("provider_success", [provider |-> provider])

\* C19: every payload returned for a request whose debug flag is not set has
\* an empty debug trace in the structured value and in the text rendering,
\* and every envelope held in the cache keeps its full trace, ending with
\* the success event of the call that produced it.
C19_TraceStripped ==
  /\ \A r \in Slots :
       QuietReturn(r) =>
         /\ Payload(task[r]).structuredContent.debugTrace = <<>>
         /\ Payload(task[r]).content[1].text[2].debugTrace = <<>>
  /\ \A i \in 1..Len(store) :
       LET trace == store[i].value.debugTrace
       IN /\ trace # <<>>
          /\ trace[Len(trace)] = SuccessEvent(store[i].value.provider)

\* a cache hit returned without its trace while the cached envelope has it
C19_Witness ==
  \E r \in Slots :
    /\ QuietReturn(r)
    /\ \E k \in 1..Len(task[r].log) : task[r].log[k].ev = "cache_hit"
    /\ Payload(task[r]).structuredContent.debugTrace = <<>>
    /\ HasKey(store, task[r].cacheKey)
    /\ EntryOf(store, task[r].cacheKey).value.debugTrace # <<>>

\* the error events the failed attempts logged before entry k stand for
RECURSIVE ErrorsBefore(_, _)
ErrorsBefore(log, k) ==
  IF k <= 1 THEN <<>>
  ELSE LET e == log[k - 1]
           rest == ErrorsBefore(log, k - 1)
       IN IF e.ev = "fail"
            THEN Append(rest, Event("provider_error",
                                    [provider |-> e.provider, message |-> e.args.message]))
            ELSE rest

\* a occurs in b as a subsequence
RECURSIVE Embeds(_, _)
Embeds(a, b) ==
  IF a = <<>> THEN TRUE
  ELSE IF b = <<>> THEN FALSE
  ELSE IF Head(a) = Head(b) THEN Embeds(Tail(a), Tail(b))
  ELSE Embeds(a, Tail(b))

\* C20: when a request asked for debug output, the trace of every envelope
\* a tier run returns contains, in attempt order, an error event for each
\* attempt of this request that failed before, whether the envelope comes
\* from a fresh adapter call or from the cache.
C20_FailuresInTrace ==
  \A r \in Slots : \A k \in 1..Len(task[r].log) :
    LET t == task[r]
    IN (t.req.debug /\ t.log[k].ev = "return") =>
         Embeds(ErrorsBefore(t.log, k), t.log[k].args.envelope.debugTrace)

\* the same for envelopes that come from a fresh adapter call
C20_FreshOnly ==
  \A r \in Slots : \A k \in 1..Len(task[r].log) :
    LET t == task[r]
    IN (t.req.debug /\ t.log[k].ev = "return" /\ k > 1 /\ t.log[k - 1].ev = "ok") =>
         Embeds(ErrorsBefore(t.log, k), t.log[k].args.envelope.debugTrace)

PrivacyBlockEvent == Event("ai_upgrade_blocked_by_privacy_guard", NoDetails)

\* C21: in automatic mode with debug output requested, when escalation is
\* skipped because of the privacy guard, the trace of the returned basic
\* envelope contains the event that marks the privacy block.
C21_BlockEventReturned ==
  \A r \in Slots :
    LET t == task[r]
    IN (t.pc = "done" /\ t.auto /\ t.req.debug /\ InTrace(t.trace, PrivacyBlockEvent)) =>
         /\ t.result.status = "returned"
         /\ InTrace(Payload(t).structuredContent.debugTrace, PrivacyBlockEvent)

\* the order the active preset gives a tier
PresetOrder(tier) ==
  LET preset == cfg.router.providerPreset
  IN IF tier = "basic"
       THEN CASE preset = "free" -> <<"searxng", "brave">>
              [] preset = "quality" -> <<"brave", "searxng">>
              [] preset = "custom" -> cfg.basic.priority
       ELSE CASE preset = "free" -> <<"tavily", "perplexity">>
              [] preset = "quality" -> <<"perplexity", "tavily">>
              [] preset = "custom" -> cfg.ai.priority

ExpectedCandidates(tier, rq) ==
  IF rq.provider \in TierProviders(tier)
    THEN <<rq.provider>>
    ELSE SelectSeq(PresetOrder(tier), Configured)

\* C22: whenever a tier run has a candidate list, it is the single named
\* provider if the request names an in-tier provider (which is then
\* configured, and no other provider of the tier appears in the run),
\* otherwise the preset order (or the custom priority list) filtered to the
\* configured providers in the same relative order; every provider the run
\* touches is on the list. A named in-tier provider that is not configured
\* gives no candidate list.
C22_CandidateList ==
  \A r \in Slots : \A tier \in Tiers :
    LET t == task[r]
    IN /\ HasCands(t, tier) =>
            /\ Cands(t, tier) = ExpectedCandidates(tier, t.req)
            /\ \A i \in 1..Len(Cands(t, tier)) : Configured(Cands(t, tier)[i])
            /\ \A k \in 1..Len(t.log) :
                 (t.log[k].tier = tier /\ t.log[k].provider # "") =>
                   \E i \in 1..Len(Cands(t, tier)) : Cands(t, tier)[i] = t.log[k].provider
       /\ (t.tool # "" /\ t.req.provider \in TierProviders(tier)
             /\ ~Configured(t.req.provider)) =>
            ~HasCands(t, tier)

\* under the custom preset the ai list is the configured priority list,
\* although another ai provider has credentials
C22_Witness ==
  \E r \in Slots :
    /\ cfg.router.providerPreset = "custom"
    /\ Configured("tavily")
    /\ HasCands(task[r], "ai")
    /\ Cands(task[r], "ai") = <<"perplexity">>
    /\ Has(task[r], "start", "ai")

EntersTier(r) ==
  \E k \in 1..Len(NewEntries(r)) : NewEntries(r)[k].ev = "enter"

\* C23: in the step that starts a tier run, if the stored day key differs
\* from the day of the clock the record becomes that day with both counts
\* zero, otherwise it is left as it is. When the day has changed and the cap
\* is at least one, the run does not refuse brave or the ai tier for budget.
C23_DailyReset ==
  [][\A r \in Slots :
       EntersTier(r) =>
         /\ dayCounter' = IF dayCounter.day = newDayKey(now)
                            THEN dayCounter
                            ELSE [day |-> newDayKey(now), braveCalls |-> 0, aiCalls |-> 0]
         /\ dayCounter.day # newDayKey(now) =>
              \A k \in 1..Len(NewEntries(r)) :
                /\ NewEntries(r)[k].ev = "skip_budget" =>
                     cfg.router.maxBraveCallsPerDay <= 0
                /\ BudgetThrow(NewEntries(r)[k]) =>
                     cfg.router.maxAiCallsPerDay <= 0]_vars

\* brave, whose one call of the day was used the day before, is called again
C23_Witness ==
  \E r \in Slots :
    /\ task[r].pc = "basic_call"
    /\ Awaited(r) = "brave"
    /\ hist["brave"].last = "success"
    /\ cfg.router.maxBraveCallsPerDay = 1
    /\ dayCounter = [day |-> newDayKey(now), braveCalls |-> 0, aiCalls |-> 0]
    /\ newDayKey(now) > newDayKey(StartNow)

Starts(t, tier) == {k \in 1..Len(t.log) : t.log[k].ev = "start" /\ t.log[k].tier = tier}

CandidateCount(t, tier) == IF HasCands(t, tier) THEN Len(Cands(t, tier)) ELSE 0

Running(r) == task[r].pc \in {"basic_call", "basic_returned", "ai_call"}

\* C24: every operation that is under way eventually ends; an operation
\* that has ended has returned exactly one payload or failed with exactly
\* one error; in each tier no provider's adapter is called twice and the
\* calls number at most the candidates of the tier.
C24_Terminates ==
  /\ [](\A r \in Slots :
          LET t == task[r]
          IN /\ t.pc = "done" =>
                  /\ t.result.status \in {"returned", "failed"}
                  /\ Len(t.result.value) = 1
             /\ t.pc # "done" => t.result = Pending
             /\ \A tier \in Tiers :
                  /\ Cardinality(Starts(t, tier)) <= CandidateCount(t, tier)
                  /\ \A j, k \in Starts(t, tier) :
                       t.log[j].provider = t.log[k].provider => j = k)
  /\ \A r \in Slots : Running(r) ~> (task[r].pc = "done")

\* an automatic operation ended after an adapter call in each tier
C24_Witness ==
  \E r \in Slots :
    /\ task[r].pc = "done" /\ task[r].auto
    /\ Cardinality(Starts(task[r], "basic")) = 1
    /\ Cardinality(Starts(task[r], "ai")) = 1
    /\ Has(task[r], "fail", "ai")

ClampReturned == probe.op = "clampMaxResults" /\ probe.ret # <<>>

ClampOfNumbers ==
  LET value == probe.in.value
      ret == probe.ret[1]
  IN value.finite =>
       /\ value.v <= MinResults => ret = MinResults
       /\ value.v >= MaxResultsCap => ret = MaxResultsCap
       /\ value.v \in MinResults..MaxResultsCap => ret = value.v

ConfiguredTimeout(provider) ==
  IF provider \in BasicProviderName THEN cfg.basic[provider].timeoutMs
                                    ELSE cfg.ai[provider].timeoutMs

\* C26: every adapter call of the routing engine, whichever of the four
\* providers it goes to, is given the request's result count limited to
\* [1, 20] and the timeout configured for that provider.
C26_CountAndTimeoutGiven ==
  \A r \in Slots : \A k \in 1..Len(task[r].log) :
    LET e == task[r].log[k]
    IN e.ev = "start" =>
         /\ e.args.maxResults = <<clampMaxResults(task[r].req.maxResults, DefaultMaxResults)>>
         /\ e.args.timeoutMs = ConfiguredTimeout(e.provider)

Canonical(results, i) == normalizeUrl(results[i].url)

FirstOccurrences(results) ==
  {i \in 1..Len(results) : \A j \in 1..(i - 1) : Canonical(results, j) # Canonical(results, i)}

Kth(S, k) == CHOOSE i \in S : Cardinality({j \in S : j <= i}) = k

DedupeReturned == probe.op = "dedupeResults" /\ probe.ret # <<>>

\* C27: the output of dedupeResults is the input rows at the first
\* occurrence of each canonical URL, in input order, each with its URL
\* replaced by the canonical form; no two output rows have the same URL,
\* every canonical URL of the input is in the output, and applying
\* dedupeResults to the output returns the output.
C27_FirstOccurrencesKept ==
  DedupeReturned =>
    LET in == probe.in.results
        out == probe.ret[1]
        first == FirstOccurrences(in)
    IN /\ Len(out) = Cardinality(first)
       /\ \A k \in 1..Len(out) :
            out[k] = [in[Kth(first, k)] EXCEPT !.url = Canonical(in, Kth(first, k))]
       /\ \A j, k \in 1..Len(out) : out[j].url = out[k].url => j = k
       /\ \A i \in 1..Len(in) : \E k \in 1..Len(out) : out[k].url = Canonical(in, i)
       /\ dedupeResults(out) = out

\* three rows, the second a differently spelled duplicate of the first: two
\* rows are returned, the first and the third
C27_Witness ==
  /\ DedupeReturned
  /\ Len(probe.in.results) = 3 /\ Len(probe.ret[1]) = 2
  /\ probe.in.results[1].url # probe.in.results[2].url
  /\ FirstOccurrences(probe.in.results) = {1, 3}
  /\ probe.ret[1][1].title = probe.in.results[1].title
  /\ probe.ret[1][2].title = probe.in.results[3].title

TrackingParams ==
  {"utm_source", "utm_medium", "utm_campaign", "utm_term", "utm_content", "ref"}

NormalizeReturned == probe.op = "normalizeUrl" /\ probe.ret # <<>>

\* C28: normalizeUrl returns, for a parseable URL, the URL without its
\* parameters named utm_source, utm_medium, utm_campaign, utm_term,
\* utm_content and ref and with every other parameter kept in order; for an
\* unparseable string the string itself; and applying it to its result
\* returns the result.
C28_TrackingRemoved ==
  NormalizeReturned =>
    LET raw == probe.in.raw
        ret == probe.ret[1]
    IN /\ raw.parseable =>
            /\ ret.parseable /\ ret.base = raw.base
            /\ ret.params = SelectSeq(raw.params, LAMBDA name : name \notin TrackingParams)
       /\ ~raw.parseable => ret = raw
       /\ normalizeUrl(ret) = ret

\* a URL with two tracking parameters, not in serialised form, has lost both
C28_Witness ==
  /\ NormalizeReturned
  /\ probe.in.raw.parseable /\ ~probe.in.raw.serialised
  /\ probe.in.raw.params = <<"ref", "utm_term">>
  /\ probe.ret[1].params = <<>>
  /\ probe.ret[1] # probe.in.raw

FreshEntry(key) ==
  /\ cfg.cache.enabled
  /\ HasKey(store, key)
  /\ EntryOf(store, key).expiresAt > now

Rejected(r) ==
  \E k \in 1..Len(NewEntries(r)) : NewEntries(r)[k].ev = "fail"

\* C29: a candidate is answered from the cache exactly when caching is
\* enabled and the store holds an unexpired entry under the key of tier,
\* provider and request; otherwise its adapter is started. The step of a
\* cache hit ends the tier run with the stored envelope: the hit is followed
\* by the return of that envelope and by nothing else, so no adapter is
\* started for this or a later candidate. The hit leaves the daily counters
\* as the entry into the tier left them and the breaker states as they were
\* (after the failure just recorded, when the hit follows a rejected call).
C29_CacheHitReturns ==
  [][\A r \in Slots : \A k \in 1..Len(NewEntries(r)) :
       LET e == NewEntries(r)[k]
           key == buildCacheKey(e.tier, e.provider, task'[r].req)
       IN /\ e.ev = "start" => ~FreshEntry(key)
          /\ e.ev = "cache_hit" =>
               LET stored == EntryOf(store, key).value
               IN /\ FreshEntry(key)
                  /\ Len(NewEntries(r)) = k + 1
                  /\ NewEntries(r)[k + 1].ev = "return"
                  /\ NewEntries(r)[k + 1].args.envelope = stored
                  /\ task'[r].pc \in {"basic_returned", "done"}
                  /\ task'[r].pc = "basic_returned" => task'[r].basicEnvelope = <<stored>>
                  /\ task'[r].pc = "done" =>
                       task'[r].result =
                         Returned(asToolPayload(StripTrace(stored, task'[r].req.debug)))
                  /\ dayCounter' = IF EntersTier(r)
                                     THEN resetDailyCounterIfNeeded(dayCounter, now)
                                     ELSE dayCounter
                  /\ states' = IF Rejected(r)
                                 THEN recordFailure(states, Awaited(r), now,
                                                    failureThreshold, cooldownMs)
                                 ELSE states]_vars

\* an operation ended with the envelope a basic run took from the cache,
\* without an adapter call of its own
C29_Witness ==
  \E r \in Slots :
    /\ task[r].pc = "done" /\ task[r].result.status = "returned"
    /\ Has(task[r], "cache_hit", "basic")
    /\ ~Has(task[r], "start", "basic")
    /\ store # <<>>

ExpectedTtl(provider) ==
  CASE provider = "brave" -> cfg.cache.ttlSecondsBrave
    [] provider = "searxng" -> cfg.cache.ttlSecondsBasic
    [] provider \in AiProviderName -> cfg.cache.ttlSecondsAi

Bump(cond) == IF cond THEN 1 ELSE 0

\* C30: the step in which the adapter call for provider p resolves sets p's
\* breaker state to zero failures and not open and leaves the state of every
\* other provider as it was; adds one to braveCalls exactly when p is brave
\* and one to aiCalls exactly when p is an ai provider, so that neither
\* count changes for searxng; and, with caching enabled, leaves the returned
\* envelope as the most recent cache entry under the key of tier, p and
\* request, expiring ttlSecondsBrave, ttlSecondsBasic or ttlSecondsAi seconds
\* from now for brave, searxng and the ai providers; with caching disabled
\* the cache is untouched.
C30_SuccessEffects ==
  [][\A r \in Slots : Resolves(r) =>
       LET p == Awaited(r)
           key == buildCacheKey(task[r].tier, p, task[r].req)
           returned == NewEntries(r)[Len(NewEntries(r))]
       IN /\ p \in DOMAIN states' /\ states'[p] = [failures |-> 0, openedUntil |-> 0]
          /\ \A q \in AllProviders \ {p} :
               /\ (q \in DOMAIN states') = (q \in DOMAIN states)
               /\ q \in DOMAIN states => states'[q] = states[q]
          /\ dayCounter'.day = dayCounter.day
          /\ dayCounter'.braveCalls = dayCounter.braveCalls + Bump(p = "brave")
          /\ dayCounter'.aiCalls = dayCounter.aiCalls + Bump(p \in AiProviderName)
          /\ returned.ev = "return" /\ returned.provider = p
          /\ cfg.cache.enabled =>
               /\ store' # <<>>
               /\ store'[Len(store')] =
                    [key |-> key, value |-> returned.args.envelope,
                     expiresAt |-> now + ExpectedTtl(p) * MsPerSecond]
               /\ \A i \in 1..(Len(store') - 1) : store'[i].key # key
          /\ ~cfg.cache.enabled => store' = store]_vars

\* brave has just answered: its call is counted, its breaker is closed and
\* its envelope is cached for ttlSecondsBrave, which differs from
\* ttlSecondsBasic
C30_Witness ==
  /\ hist["brave"].last = "success"
  /\ dayCounter.braveCalls = 1 /\ dayCounter.aiCalls = 0
  /\ "brave" \in DOMAIN states /\ states["brave"] = ClosedState
  /\ cfg.cache.ttlSecondsBrave # cfg.cache.ttlSecondsBasic
  /\ store # <<>>
  /\ store[Len(store)].value.provider = "brave"
  /\ store[Len(store)].expiresAt = now + cfg.cache.ttlSecondsBrave * MsPerSecond

Rejects(r) == \E message \in AdapterErrors : AdapterRejects(r, message)

CandidateEvents == {"skip_open", "skip_budget", "cache_hit", "start"}

\* the entries a step appends for the candidates after the one that failed
Onward(r) == SelectSeq(Tail(NewEntries(r)), LAMBDA e : e.ev \in CandidateEvents)

\* C31: the step in which the adapter call for provider p rejects adds one
\* to p's failure count (opening p for the cooldown when the count reaches
\* the threshold) and leaves every other provider's state as it was; puts no
\* entry into the cache; leaves the daily counters as they were; and goes on
\* with the candidates after p in order, never with p again. The operation
\* fails in that step only when no candidate after p was started or answered
\* from the cache, and then with the all-providers-failed error carrying the
\* message of this rejection; never in the ai tier of the automatic path.
C31_FailureEffects ==
  [][\A r \in Slots : Rejects(r) =>
       LET p == Awaited(r)
           t == task[r]
           new == NewEntries(r)
           before == IF p \in DOMAIN states THEN states[p].failures ELSE 0
           onward == Onward(r)
       IN /\ p \in DOMAIN states'
          /\ states'[p].failures = before + 1
          /\ states'[p].openedUntil =
               IF before + 1 >= failureThreshold THEN now + cooldownMs ELSE 0
          /\ \A q \in AllProviders \ {p} :
               /\ (q \in DOMAIN states') = (q \in DOMAIN states)
               /\ q \in DOMAIN states => states'[q] = states[q]
          /\ \A i \in 1..Len(store') : \E j \in 1..Len(store) : store'[i] = store[j]
          /\ dayCounter' = dayCounter
          /\ new[1].ev = "fail" /\ new[1].provider = p
          /\ \A k \in 2..Len(new) : new[k].ev # "fail"
          /\ t.idx + Len(onward) <= Len(t.providers)
          /\ \A k \in 1..Len(onward) : onward[k].provider = t.providers[t.idx + k]
          /\ \A k \in 1..(Len(onward) - 1) : onward[k].ev \in {"skip_open", "skip_budget"}
          /\ task'[r].result.status = "failed" =>
               /\ ~(t.auto /\ t.tier = "ai")
               /\ t.idx + Len(onward) = Len(t.providers)
               /\ \A k \in 1..Len(onward) : onward[k].ev \in {"skip_open", "skip_budget"}
               /\ task'[r].result = Failed(Err("all_providers_failed", t.tier,
                                               new[1].args.message))
          /\ task'[r].result.status = "pending" =>
               /\ onward # <<>>
               /\ onward[Len(onward)].ev \in {"start", "cache_hit"}]_vars

\* the first basic candidate has just failed, which opened its breaker, and
\* the second candidate's adapter is under way; brave has not been counted
C31_Witness ==
  \E r \in Slots :
    /\ task[r].pc = "basic_call" /\ task[r].idx = 2
    /\ Has(task[r], "fail", "basic")
    /\ task[r].providers[1] \in DOMAIN states
    /\ states[task[r].providers[1]] = [failures |-> 1, openedUntil |-> now + cooldownMs]
    /\ task[r].providers[2] \notin DOMAIN states
    /\ dayCounter.braveCalls = 0

Skips == {"skip_open", "skip_budget"}

Skipped(r) == \E k \in 1..Len(NewEntries(r)) : NewEntries(r)[k].ev \in Skips

\* the entries of a step in which a candidate got as far as the cache
Reads(r) == SelectSeq(NewEntries(r), LAMBDA e : e.ev \in {"cache_hit", "start"})

KeyOf(r, e) == buildCacheKey(e.tier, e.provider, task'[r].req)

\* C32: a candidate is skipped for its breaker whenever the breaker is open,
\* whatever its budget; brave is skipped for its budget only with its
\* breaker available and its count at the cap; a candidate gets to the cache
\* and the adapter only when it is available and, for brave, under the cap.
\* A skipped candidate is neither answered from the cache nor started in
\* that run, and its cache entry is not read: in a step that skips
\* candidates the store changes only by the read of the one candidate that
\* was not skipped, so an unexpired entry of a skipped provider stays where
\* it was.
C32_SkipBeforeCache ==
  /\ [](\A r \in Slots : \A k \in 1..Len(task[r].log) :
          LET t == task[r]
          IN t.log[k].ev \in Skips =>
               ~\E j \in 1..Len(t.log) :
                  /\ t.log[j].tier = t.log[k].tier
                  /\ t.log[j].provider = t.log[k].provider
                  /\ t.log[j].ev \in {"cache_hit", "start", "ok", "fail"})
  /\ [][\A r \in Slots :
          /\ \A k \in 1..Len(NewEntries(r)) :
               LET e == NewEntries(r)[k]
                   capped == /\ e.tier = "basic" /\ e.provider = "brave"
                             /\ dayCounter'.braveCalls >= cfg.router.maxBraveCallsPerDay
               IN /\ e.ev = "skip_open" => ~isAvailable(states', e.provider, now)
                  /\ e.ev = "skip_budget" =>
                       isAvailable(states', e.provider, now) /\ capped
                  /\ e.ev \in {"cache_hit", "start"} =>
                       isAvailable(states', e.provider, now) /\ ~capped
          /\ Skipped(r) =>
               /\ Len(Reads(r)) <= 1
               /\ store' = IF Reads(r) = <<>> \/ ~cfg.cache.enabled THEN store
                           ELSE CacheGet(store, KeyOf(r, Reads(r)[1]), now).store]_vars

\* searxng is open and was skipped although the store holds its unexpired
\* envelope for this very request, which ended without an envelope
C32_Witness ==
  \E r \in Slots :
    /\ task[r].pc = "done" /\ task[r].result.status = "failed"
    /\ \E k \in 1..Len(task[r].log) :
         /\ task[r].log[k].ev = "skip_open" /\ task[r].log[k].provider = "searxng"
    /\ ~isAvailable(states, "searxng", now)
    /\ FreshEntry(buildCacheKey("basic", "searxng", task[r].req))
    /\ EntryOf(store, buildCacheKey("basic", "searxng", task[r].req)).value.provider = "searxng"

FailuresOf(st, provider) == IF provider \in DOMAIN st THEN st[provider].failures ELSE 0

\* C33: a failure adds one to the count whether or not it opens the breaker,
\* so the count equals the failures since the last success and stays at or
\* above the threshold once the breaker has opened. After the cooldown of
\* the latest such failure, with no success since, isAvailable answers true
\* on every call and changes nothing. A failure recorded when the count is
\* already at or above the threshold opens the breaker again until the
\* cooldown has passed from that failure, and until then it is unavailable.
C33_NoHalfOpen ==
  /\ [](\A p \in BreakerProviders :
          /\ FailuresOf(states, p) = hist[p].streak
          /\ (hist[p].last = "failure" /\ hist[p].thresholdAt >= 0) =>
               /\ states[p].failures >= Max(1, cfg.circuitBreaker.failureThreshold)
               /\ now >= hist[p].thresholdAt + Max(1000, cfg.circuitBreaker.cooldownMs)
                    => isAvailable(states, p, now)
          /\ (hist[p].last = "failure" /\ hist[p].thresholdAt >= 0) =>
               (now < hist[p].thresholdAt + Max(1000, cfg.circuitBreaker.cooldownMs)
                  => ~isAvailable(states, p, now)))
  /\ [][\A p \in BreakerProviders :
          /\ IsAvailableOp(p) =>
               /\ states' = states
               /\ probe'.ret = <<isAvailable(states, p, now)>>
          /\ RecordFailureOp(p) =>
               /\ states'[p].failures = FailuresOf(states, p) + 1
               /\ FailuresOf(states, p) >= Max(1, cfg.circuitBreaker.failureThreshold) =>
                    /\ states'[p].openedUntil =
                         now + Max(1000, cfg.circuitBreaker.cooldownMs)
                    /\ ~isAvailable(states', p, now)]_vars

\* with a threshold of two, a third failure recorded a cooldown or more
\* after the start has opened the breaker again: the count is three and the
\* provider is unavailable until a full cooldown from now
C33_Witness ==
  /\ cfg.circuitBreaker.failureThreshold = 2
  /\ hist["brave"].last = "failure" /\ hist["brave"].streak = 3
  /\ hist["brave"].thresholdAt = now
  /\ now >= StartNow + cooldownMs
  /\ states["brave"] = [failures |-> 3, openedUntil |-> now + cooldownMs]
  /\ ~isAvailable(states, "brave", now)
  /\ probe.op = "isAvailable" /\ probe.key = NameChars("brave") /\ probe.ret = <<TRUE>>
  /\ probe.at > StartNow

\* C36: for every provider with a recorded state, an open-until other than
\* zero comes with a failure count at or above the threshold (the
\* configured one, at least 1); a provider with fewer failures since its
\* last success than the threshold, or with no recorded state, is available.
C36_OpenOnlyAtThreshold ==
  \A p \in BreakerProviders :
    LET threshold == Max(1, cfg.circuitBreaker.failureThreshold)
    IN /\ p \in DOMAIN states =>
            (states[p].openedUntil # 0 => states[p].failures >= threshold)
       /\ hist[p].streak < threshold => isAvailable(states, p, now)

\* one failure below a threshold of two: recorded, and the provider available
C36_Witness ==
  /\ cfg.circuitBreaker.failureThreshold = 2
  /\ "searxng" \in DOMAIN states
  /\ states["searxng"] = [failures |-> 1, openedUntil |-> 0]
  /\ hist["searxng"].last = "failure"
  /\ isAvailable(states, "searxng", now)
  /\ "brave" \in DOMAIN states /\ ~isAvailable(states, "brave", now)


\* ---- C34 ----
KeyReturned == probe.op = "buildCacheKey" /\ probe.ret # <<>>

\* the components the spec lists for a cache key
KeyComponents(k) ==
  << k.tier, k.provider, toLowerCase(trim(k.req.query)),
     k.req.language, k.req.country, k.req.freshness, k.req.category,
     clampMaxResults(k.req.maxResults, DefaultMaxResults) >>

\* C34: the cache key is determined by tier, provider, the trimmed
\* lower-cased query, language, country, freshness, category and the clamped
\* result count: two requests that agree on these get the same key, whatever
\* their letter case, surrounding whitespace, safesearch, searchDepth or debug
C34_SameComponentsSameKey ==
  KeyReturned =>
    (KeyComponents(probe.in.first) = KeyComponents(probe.in.second)
       => probe.ret[1].first = probe.ret[1].second)

C34_Witness ==
  /\ KeyReturned
  /\ probe.in.first.req.query # probe.in.second.req.query
  /\ probe.in.first.req.safesearch # probe.in.second.req.safesearch
  /\ probe.in.first.req.searchDepth # probe.in.second.req.searchDepth
  /\ probe.in.first.req.debug # probe.in.second.req.debug
  /\ probe.in.first.req.maxResults # probe.in.second.req.maxResults
  /\ KeyComponents(probe.in.first) = KeyComponents(probe.in.second)
  /\ probe.ret[1].first = probe.ret[1].second

\* ---- C35 ----
\* C35: two requests whose listed components differ anywhere get different
\* cache keys
C35_DifferentComponentsDifferentKey ==
  KeyReturned =>
    (KeyComponents(probe.in.first) # KeyComponents(probe.in.second)
       => probe.ret[1].first # probe.ret[1].second)


\* ---- C37 ----
\* the adapter calls slot r's operation starts in this step
Started(r) == {k \in DOMAIN NewEntries(r) : NewEntries(r)[k].ev = "start"}

\* the breaker lets provider p through and p's daily budget is not used up,
\* in the state in which the call is started
StartAllowed(p, breakers, counter, clock) ==
  /\ isAvailable(breakers, p, clock)
  /\ p = "brave" =>
       resetDailyCounterIfNeeded(counter, clock).braveCalls < cfg.router.maxBraveCallsPerDay
  /\ p \in AiProviderName =>
       resetDailyCounterIfNeeded(counter, clock).aiCalls < cfg.router.maxAiCallsPerDay

\* C37: whatever the interleaving of concurrent operations, when an adapter
\* call is started for provider p, p's breaker is available and today's
\* count of p's budget (brave calls for brave, ai calls for tavily and
\* perplexity) is below its cap
C37_StartOnlyWhenAllowed ==
  [][\A r \in Slots : \A k \in Started(r) :
       StartAllowed(NewEntries(r)[k].provider, states', dayCounter', now')]_vars

\* the breaker and the brave budget alone: these are tested in the same
\* synchronous stretch as the call they guard
BreakerAndBraveChecked ==
  [][\A r \in Slots : \A k \in Started(r) :
       LET p == NewEntries(r)[k].provider
       IN /\ isAvailable(states', p, now')
          /\ p = "brave" =>
               resetDailyCounterIfNeeded(dayCounter', now').braveCalls
                 < cfg.router.maxBraveCallsPerDay]_vars


\* ---- C38 ----
\* the errors thrown by the runs of `tier` in the operation t
Thrown(t, tier) ==
  { t.log[k].args.error : k \in {j \in 1..Len(t.log) :
                                   t.log[j].ev = "throw" /\ t.log[j].tier = tier} }

AiEntries(log) == {k \in 1..Len(log) : log[k].tier = "ai"}

AiCountAt(counter, clock) == resetDailyCounterIfNeeded(counter, clock).aiCalls

\* C38: in automatic mode, when the basic run throws (no basic provider
\* configured, the requested basic provider not configured, or every basic
\* candidate failed or was skipped) the operation has ended, failed with
\* exactly that error, and nothing of the ai tier has run in it: no ai run
\* entered, no ai cache answer, no ai adapter call. A step of an operation
\* that does nothing in the ai tier leaves today's ai count as it was.
C38_BasicFailureEndsAuto ==
  /\ [](\A r \in Slots :
          LET t == task[r]
          IN t.auto /\ Thrown(t, "basic") # {} =>
               /\ t.pc = "done"
               /\ t.result.status = "failed"
               /\ Thrown(t, "basic") = {t.result.value[1]}
               /\ AiEntries(t.log) = {})
  /\ [][\A r \in Slots :
          (NewEntries(r) # <<>> /\ AiEntries(NewEntries(r)) = {}) =>
             AiCountAt(dayCounter', now) = AiCountAt(dayCounter, now)]_vars

\* every basic candidate failed, with an ai provider configured, its budget
\* untouched and a query that asks for an ai answer
C38_Witness ==
  \E r \in Slots :
    /\ task[r].auto
    /\ task[r].pc = "done"
    /\ task[r].result = Failed(Err("all_providers_failed", "basic", "HTTP 500"))
    /\ task[r].req.query = QKeyword
    /\ cfg.ai.perplexity.apiKey # ""
    /\ dayCounter.aiCalls < cfg.router.maxAiCallsPerDay
    /\ AiEntries(task[r].log) = {}


\* ---- C39 ----
\* in this step slot r's operation runs `tier` from its candidate list on and
\* every candidate is skipped
AllSkipped(r, tier) ==
  LET new == NewEntries(r)
  IN \E k \in DOMAIN new :
       /\ new[k].ev = "candidates" /\ new[k].tier = tier
       /\ \A i \in DOMAIN new[k].args.providers :
            \E j \in (k+1)..Len(new) :
              /\ new[j].tier = tier
              /\ new[j].ev \in Skips
              /\ new[j].provider = new[k].args.providers[i]

Exhausted(tier) == Err("all_providers_failed", tier, UnknownError)

\* C39: a tier run in which every candidate is skipped (breaker open, or
\* brave at its daily cap) invokes no adapter and answers nothing from the
\* cache, throws the all-providers-failed error with the message
\* 'unknown error' (which ends the operation as failed, except in the ai
\* tier of the automatic path), and leaves the cache, the breaker states and
\* the daily counts exactly as they were: the only write is the day reset
\* made at the entry of the run
C39_AllSkippedUnknownError ==
  [][\A r \in Slots : \A tier \in Tiers :
       AllSkipped(r, tier) =>
         LET new == NewEntries(r)
         IN /\ new[Len(new)] = LogEntry("throw", tier, "", [error |-> Exhausted(tier)])
            /\ \A k \in DOMAIN new :
                 new[k].tier = tier => new[k].ev \notin {"start", "cache_hit", "ok", "fail"}
            /\ task'[r].pc = "done"
            /\ ~(task'[r].auto /\ tier = "ai") => task'[r].result = Failed(Exhausted(tier))
            /\ store' = store
            /\ states' = states
            /\ dayCounter' = resetDailyCounterIfNeeded(dayCounter, now)]_vars

\* searxng open and brave at its cap: both basic candidates skipped, with
\* an entry in the cache and a count on the counter
C39_Witness ==
  \E r \in Slots :
    /\ task[r].pc = "done"
    /\ task[r].result = Failed(Exhausted("basic"))
    /\ Has(task[r], "skip_open", "basic")
    /\ Has(task[r], "skip_budget", "basic")
    /\ ~Has(task[r], "start", "basic")
    /\ store # <<>>
    /\ dayCounter.braveCalls = cfg.router.maxBraveCallsPerDay


\* ---- C40 ----
Returns(t) == {k \in 1..Len(t.log) : t.log[k].ev = "return"}

\* the envelope names the tier that returned it and one of this request's
\* candidates for that tier
NamesTierAndCandidate(t, k) ==
  LET envelope == t.log[k].args.envelope
      tier == t.log[k].tier
  IN /\ envelope.mode = tier
     /\ HasCands(t, tier)
     /\ \E i \in DOMAIN Cands(t, tier) : Cands(t, tier)[i] = envelope.provider

\* C40: every envelope a tier run returns for a request has the tier of
\* that run in its tier field, one of this request's candidates for that
\* tier in its provider field, and this request's query text in its query
\* field, whether it comes from a fresh adapter call or from the cache
C40_EnvelopeDescribesRequest ==
  \A r \in Slots : \A k \in Returns(task[r]) :
    /\ NamesTierAndCandidate(task[r], k)
    /\ task[r].log[k].args.envelope.query = task[r].req.query

\* tier and provider always describe the request; the query does on fresh
\* adapter successes
EnvelopeFreshOrNamed ==
  \A r \in Slots : \A k \in Returns(task[r]) :
    /\ NamesTierAndCandidate(task[r], k)
    /\ task[r].log[k - 1].ev = "ok" =>
         task[r].log[k].args.envelope.query = task[r].req.query

====
